---- MODULE Spec2Model ----
(***************************************************************************)
(* A model of whatsapp-mcp-server: the data models of lib/models.py        *)
(* (Message, Chat, Contact and their to_dict serialisations), the bridge   *)
(* client of lib/bridge.py and the tool surfaces of main.py, sse_main.py   *)
(* and gradio-main.py.                                                     *)
(*                                                                         *)
(* Python values are tagged records, so that None, "", 0, False, [] and {} *)
(* stay distinct values.  Strings are sequences of one-character strings,  *)
(* so that str.endswith is computed on the characters.                     *)
(***************************************************************************)
EXTENDS Integers, Sequences, FiniteSets, TLC

VARIABLES
    msg,        \* the Message instance under construction / serialisation
    msgOut,     \* the mapping Message.to_dict() returned, or NoDict
    chat,       \* the Chat instance
    chatOut,    \* the mapping Chat.to_dict() returned, or NoDict
    contact,    \* the Contact instance
    contactOut, \* the mapping Contact.to_dict() returned, or NoDict
    env,        \* the process environment (os.environ)
    WHATSAPP_API_BASE_URL, \* lib/bridge.py's global of that name, bound at import
    calls,      \* the bridge client invocations in progress, one per caller
    tool,       \* the last tool invocation of a tool surface and what it returned
    contact_nicknames, \* the nickname override table: rows (jid, nickname, updated_at)
    nick,       \* the nickname tool invocations in progress, one per caller
    nickLog,    \* history of the nickname tool invocations (for the claims)
    messages,   \* the messages table of the local store, in row order
    chats,      \* the chats table of the local store, in row order
    contacts,   \* the contacts table of the local store, in row order
    read        \* the last read of the local store and what it returned

vars ==
    <<msg, msgOut, chat, chatOut, contact, contactOut, env,
      WHATSAPP_API_BASE_URL, calls, tool,
      contact_nicknames, nick, nickLog, messages, chats, contacts, read>>

msgVars == <<msg, msgOut>>
chatVars == <<chat, chatOut>>
contactVars == <<contact, contactOut>>
bridgeVars == <<env, WHATSAPP_API_BASE_URL, calls>>
toolVars == <<tool>>
nickVars == <<contact_nicknames, nick, nickLog>>
tableVars == <<messages, chats, contacts>>
readVars == <<tableVars, read>>

\* what a step of one part leaves alone: the variables of the other parts
notMsgVars == <<chatVars, contactVars, bridgeVars, toolVars, nickVars, readVars>>
notChatVars == <<msgVars, contactVars, bridgeVars, toolVars, nickVars, readVars>>
notContactVars == <<msgVars, chatVars, bridgeVars, toolVars, nickVars, readVars>>
notBridgeVars == <<msgVars, chatVars, contactVars, toolVars, nickVars, readVars>>
notToolVars == <<msgVars, chatVars, contactVars, bridgeVars, nickVars, readVars>>
notNickVars == <<msgVars, chatVars, contactVars, bridgeVars, toolVars, readVars>>
notReadVars == <<msgVars, chatVars, contactVars, bridgeVars, toolVars, nickVars>>

(***************************************************************************)
(* Bounds of the model.                                                    *)
(***************************************************************************)
\* how many optional fields of one entity are given a non-default value
MaxSetFields == 2

(***************************************************************************)
(* Python values.                                                          *)
(***************************************************************************)
None == [t |-> "none"]
PyStr(s) == [t |-> "str", v |-> s]
PyInt(n) == [t |-> "int", v |-> n]
PyBool(b) == [t |-> "bool", v |-> b]
PyList(l) == [t |-> "list", v |-> l]
PyDict(d) == [t |-> "dict", v |-> d]
PyDateTime(n) == [t |-> "datetime", v |-> n]
\* a float, in tenths
PyFloat(n) == [t |-> "float", v |-> n]

\* the value of `if x:` for the value x
Truthy(x) ==
    CASE x.t = "none" -> FALSE
      [] x.t = "str" -> Len(x.v) > 0
      [] x.t = "int" -> x.v # 0
      [] x.t = "float" -> x.v # 0
      [] x.t = "bool" -> x.v
      [] x.t = "list" -> Len(x.v) > 0
      [] x.t = "dict" -> DOMAIN x.v # {}
      [] x.t = "datetime" -> TRUE

\* the value of `x is not None`
IsNotNone(x) == x.t # "none"

\* str.endswith(suffix), on the characters
EndsWith(s, suffix) ==
    /\ Len(s) >= Len(suffix)
    /\ SubSeq(s, Len(s) - Len(suffix) + 1, Len(s)) = suffix

\* datetime.isoformat(): the text of the instant, a str and no datetime
IsoFormat(d) == PyStr(<<"T">> \o d.v)

\* result[key] = value on a dict
Put(d, key, value) ==
    [k \in DOMAIN d \cup {key} |-> IF k = key THEN value ELSE d[k]]

\* `if cond: result[key] = value`
PutIf(cond, d, key, value) == IF cond THEN Put(d, key, value) ELSE d

\* a to_dict() that has not run
NoDict == [t |-> "nodict"]

(***************************************************************************)
(* Sample strings.                                                         *)
(***************************************************************************)
GroupSuffix == <<"@", "g", ".", "u", "s">>
DirectSuffix == <<"@", "s", ".", "w", "h", "a", "t", "s", "a", "p", "p", ".", "n", "e", "t">>

\* the JIDs an entity is built with: a group, a direct chat, and two JIDs
\* that contain the group domain without ending in "@g.us"
Jids ==
    { <<"1">> \o GroupSuffix,
      <<"2">> \o DirectSuffix,
      <<"3">> \o GroupSuffix \o <<"x">>,
      <<"g", ".", "u", "s">> }

\* the values the sample fields take, by declared type
OptStrValues == {None, PyStr(<<>>), PyStr(<<"x">>)}
OptIntValues == {None, PyInt(0), PyInt(5)}
OptBoolValues == {None, PyBool(FALSE), PyBool(TRUE)}
BoolValues == {PyBool(FALSE), PyBool(TRUE)}
EmptyDict == [k \in {} |-> None]
SampleDict == [k \in {"k"} |-> PyInt(1)]
DictValues == {PyDict(EmptyDict), PyDict(SampleDict)}
OptDictValues == {None} \cup DictValues
ListValues == {PyList(<<>>), PyList(<<PyStr(<<"x">>)>>)}
OptDateTimeValues == {None, PyDateTime(<<"0">>)}
OptFloatValues == {None, PyFloat(0), PyFloat(5)}

(***************************************************************************)
(* lib/models.py: Message.                                                 *)
(***************************************************************************)
MessageRequiredFields ==
    {"timestamp", "sender", "content", "is_from_me", "chat_jid", "id"}

\* the fields of the dataclass that have a default, with the default
MessageDefaults ==
    [ chat_name |-> None,
      sender_name |-> None,
      media_type |-> None,
      filename |-> None,
      file_length |-> None,
      sender_contact_info |-> None,
      character_count |-> None,
      word_count |-> None,
      url_list |-> PyList(<<>>),
      mentions |-> PyList(<<>>),
      reply_to_message_id |-> None,
      quoted_message_id |-> None,
      quoted_sender_name |-> None,
      quoted_text_preview |-> None,
      reaction_summary |-> PyDict(EmptyDict),
      edit_count |-> None,
      is_edited |-> PyBool(FALSE),
      is_forwarded |-> PyBool(FALSE),
      forwarded_from |-> None,
      is_system_message |-> PyBool(FALSE),
      system_message_type |-> None,
      response_time_seconds |-> None,
      is_first_message_today |-> PyBool(FALSE),
      message_position_in_thread |-> None,
      has_reactions |-> PyBool(FALSE),
      is_group |-> PyBool(FALSE),
      is_read |-> PyBool(FALSE) ]

MessageOptionalFields == DOMAIN MessageDefaults

\* the values of a field's declared type
MessageFieldValues(f) ==
    CASE f \in {"chat_name", "sender_name", "media_type", "filename",
                "reply_to_message_id", "quoted_message_id", "quoted_sender_name",
                "quoted_text_preview", "forwarded_from", "system_message_type"}
            -> OptStrValues
      [] f \in {"file_length", "character_count", "word_count", "edit_count",
                "response_time_seconds", "message_position_in_thread"}
            -> OptIntValues
      [] f = "sender_contact_info" -> OptDictValues
      [] f = "reaction_summary" -> DictValues
      [] f \in {"url_list", "mentions"} -> ListValues
      [] f \in {"is_edited", "is_forwarded", "is_system_message",
                "is_first_message_today", "has_reactions", "is_group", "is_read"}
            -> BoolValues

\* Message(timestamp, sender, content, is_from_me, chat_jid, id): the
\* generated __init__, every other field at its default
Message(timestamp, sender, content, is_from_me, chat_jid, id) ==
    [ f \in MessageRequiredFields \cup MessageOptionalFields |->
        CASE f = "timestamp" -> timestamp
          [] f = "sender" -> sender
          [] f = "content" -> content
          [] f = "is_from_me" -> is_from_me
          [] f = "chat_jid" -> chat_jid
          [] f = "id" -> id
          [] OTHER -> MessageDefaults[f] ]

\* MessageRequired with `if self.timestamp:` guarding the timestamp key
MessageRequiredNoTimestamp(m) ==
    [ k \in {"id", "chat_jid", "sender", "content", "is_from_me", "is_group"}
            \cup (IF Truthy(m.timestamp) THEN {"timestamp"} ELSE {}) |->
        CASE k = "id" -> m.id
          [] k = "chat_jid" -> m.chat_jid
          [] k = "timestamp" -> IsoFormat(m.timestamp)
          [] k = "sender" -> m.sender
          [] k = "content" -> m.content
          [] k = "is_from_me" -> m.is_from_me
          [] k = "is_group" -> m.is_group ]

\* the dict literal to_dict starts from
MessageRequired(m) ==
    [ k \in {"id", "chat_jid", "timestamp", "sender", "content", "is_from_me",
             "is_group"} |->
        CASE k = "id" -> m.id
          [] k = "chat_jid" -> m.chat_jid
          [] k = "timestamp" ->
                IF Truthy(m.timestamp) THEN IsoFormat(m.timestamp) ELSE None
          [] k = "sender" -> m.sender
          [] k = "content" -> m.content
          [] k = "is_from_me" -> m.is_from_me
          [] k = "is_group" -> m.is_group ]

\* MessageMedia with filename and file_length set only when they hold a value
MessageMediaSparse(m, d) ==
    IF Truthy(m.media_type)
    THEN PutIf(Truthy(m.file_length),
               PutIf(Truthy(m.filename), Put(d, "media_type", m.media_type),
                     "filename", m.filename),
               "file_length", m.file_length)
    ELSE d

\* the `if self.media_type:` block, which sets three keys
MessageMedia(m, d) ==
    IF Truthy(m.media_type)
    THEN Put(Put(Put(d, "media_type", m.media_type),
                 "filename", m.filename),
             "file_length", m.file_length)
    ELSE d

\* `if self.edit_count is not None and self.edit_count > 0:`
MessageEditCountEmitted(m) ==
    IsNotNone(m.edit_count) /\ m.edit_count.v > 0

Message_to_dict(m) ==
    LET r0 == MessageRequired(m)
        r1 == PutIf(Truthy(m.chat_name), r0, "chat_name", m.chat_name)
        r2 == PutIf(Truthy(m.sender_name), r1, "sender_name", m.sender_name)
        r3 == MessageMedia(m, r2)
        r4 == PutIf(Truthy(m.sender_contact_info), r3, "sender_contact_info",
                    m.sender_contact_info)
        r5 == PutIf(IsNotNone(m.character_count), r4, "character_count",
                    m.character_count)
        r6 == PutIf(IsNotNone(m.word_count), r5, "word_count", m.word_count)
        r7 == PutIf(Truthy(m.url_list), r6, "url_list", m.url_list)
        r8 == PutIf(Truthy(m.mentions), r7, "mentions", m.mentions)
        r9 == PutIf(Truthy(m.reply_to_message_id), r8, "reply_to_message_id",
                    m.reply_to_message_id)
        r10 == PutIf(Truthy(m.quoted_message_id), r9, "quoted_message_id",
                     m.quoted_message_id)
        r11 == PutIf(Truthy(m.quoted_sender_name), r10, "quoted_sender_name",
                     m.quoted_sender_name)
        r12 == PutIf(Truthy(m.quoted_text_preview), r11, "quoted_text_preview",
                     m.quoted_text_preview)
        r13 == PutIf(Truthy(m.reaction_summary), r12, "reaction_summary",
                     m.reaction_summary)
        r14 == PutIf(MessageEditCountEmitted(m), r13, "edit_count", m.edit_count)
        r15 == PutIf(Truthy(m.is_edited), r14, "is_edited", m.is_edited)
        r16 == PutIf(Truthy(m.is_forwarded), r15, "is_forwarded", m.is_forwarded)
        r17 == PutIf(Truthy(m.forwarded_from), r16, "forwarded_from",
                     m.forwarded_from)
        r18 == PutIf(Truthy(m.is_system_message), r17, "is_system_message",
                     m.is_system_message)
        r19 == PutIf(Truthy(m.system_message_type), r18, "system_message_type",
                     m.system_message_type)
        r20 == PutIf(IsNotNone(m.response_time_seconds), r19,
                     "response_time_seconds", m.response_time_seconds)
        r21 == PutIf(Truthy(m.is_first_message_today), r20,
                     "is_first_message_today", m.is_first_message_today)
        r22 == PutIf(IsNotNone(m.message_position_in_thread), r21,
                     "message_position_in_thread", m.message_position_in_thread)
        r23 == PutIf(Truthy(m.has_reactions), r22, "has_reactions",
                     m.has_reactions)
        r24 == PutIf(Truthy(m.is_read), r23, "is_read", m.is_read)
    IN  PyDict(r24)

\* how many of an entity's defaulted fields hold another value than the default
SetFields(e, defaults) == Cardinality({f \in DOMAIN defaults : e[f] # defaults[f]})

\* the constructor arguments a Message is built with
MessageArgs ==
    { Message(ts, PyStr(<<"s">>), c, PyBool(b), PyStr(j), PyStr(<<"m">>)) :
        ts \in OptDateTimeValues, c \in {PyStr(<<>>), PyStr(<<"h", "i">>)},
        b \in {FALSE}, j \in Jids }

MessageInit ==
    /\ msg \in MessageArgs
    /\ msgOut = NoDict

\* a keyword argument of the constructor / an attribute assignment
MessageSetField(f, v) ==
    /\ msgOut = NoDict
    /\ msg[f] # v
    /\ SetFields([msg EXCEPT ![f] = v], MessageDefaults) <= MaxSetFields
    /\ msg' = [msg EXCEPT ![f] = v]
    /\ UNCHANGED <<msgOut, notMsgVars>>

MessageToDict ==
    /\ msgOut = NoDict
    /\ msgOut' = Message_to_dict(msg)
    /\ UNCHANGED <<msg, notMsgVars>>
(***************************************************************************)
(* lib/models.py: Chat.                                                    *)
(***************************************************************************)
ChatRequiredFields == {"jid", "name", "last_message_time"}

ChatDefaults ==
    [ last_message |-> None,
      last_message_id |-> None,
      last_sender |-> None,
      last_sender_name |-> None,
      last_is_from_me |-> None,
      total_message_count |-> None,
      message_count_today |-> None,
      message_count_last_7_days |-> None,
      message_velocity_last_7_days |-> PyDict(EmptyDict),
      participant_count |-> None,
      participant_names |-> PyList(<<>>),
      participant_list |-> PyList(<<>>),
      most_active_member_name |-> None,
      most_active_member_message_count |-> None,
      admin_list |-> PyList(<<>>),
      chat_type |-> None,
      silent_duration_seconds |-> None,
      is_recently_active |-> PyBool(FALSE),
      media_count_by_type |-> PyDict(EmptyDict),
      recent_media |-> PyList(<<>>),
      has_media |-> PyBool(FALSE),
      is_disappearing_messages |-> PyBool(FALSE),
      disappearing_ttl |-> None,
      last_sender_contact_info |-> None,
      timezone |-> None ]

ChatOptionalFields == DOMAIN ChatDefaults

ChatTypeGroup == <<"g", "r", "o", "u", "p">>
ChatTypeIndividual == <<"i", "n", "d", "i", "v", "i", "d", "u", "a", "l">>

ChatFieldValues(f) ==
    CASE f \in {"last_message", "last_message_id", "last_sender",
                "last_sender_name", "most_active_member_name", "timezone"}
            -> OptStrValues
      [] f = "chat_type"
            -> OptStrValues \cup {PyStr(ChatTypeGroup), PyStr(ChatTypeIndividual)}
      [] f = "last_is_from_me" -> OptBoolValues
      [] f \in {"total_message_count", "message_count_today",
                "message_count_last_7_days", "participant_count",
                "most_active_member_message_count", "silent_duration_seconds",
                "disappearing_ttl"}
            -> OptIntValues
      [] f \in {"message_velocity_last_7_days", "media_count_by_type"}
            -> DictValues
      [] f = "last_sender_contact_info" -> OptDictValues
      [] f \in {"participant_names", "participant_list", "admin_list",
                "recent_media"}
            -> ListValues
      [] f \in {"is_recently_active", "has_media", "is_disappearing_messages"}
            -> BoolValues

\* Chat(jid, name, last_message_time)
Chat(jid, name, last_message_time) ==
    [ f \in ChatRequiredFields \cup ChatOptionalFields |->
        CASE f = "jid" -> jid
          [] f = "name" -> name
          [] f = "last_message_time" -> last_message_time
          [] OTHER -> ChatDefaults[f] ]

\* the property Chat.is_group
Chat_is_group(c) == PyBool(EndsWith(c.jid.v, GroupSuffix))

ChatRequired(c) ==
    [ k \in {"jid", "name", "is_group"} |->
        CASE k = "jid" -> c.jid
          [] k = "name" -> c.name
          [] k = "is_group" -> Chat_is_group(c) ]

\* ChatCountEmitted as the truth test `if self.<count>:`
ChatCountEmittedTruthy(v) == Truthy(v)

\* `if self.<count> is not None:` of the statistics of a Chat
ChatCountEmitted(v) == IsNotNone(v)

Chat_to_dict(c) ==
    LET r0 == ChatRequired(c)
        r1 == PutIf(Truthy(c.last_message_time), r0, "last_message_time",
                    IsoFormat(c.last_message_time))
        r2 == PutIf(Truthy(c.last_message), r1, "last_message", c.last_message)
        r3 == PutIf(Truthy(c.last_message_id), r2, "last_message_id",
                    c.last_message_id)
        r4 == PutIf(Truthy(c.last_sender), r3, "last_sender", c.last_sender)
        r5 == PutIf(Truthy(c.last_sender_name), r4, "last_sender_name",
                    c.last_sender_name)
        r6 == PutIf(IsNotNone(c.last_is_from_me), r5, "last_is_from_me",
                    c.last_is_from_me)
        r7 == PutIf(ChatCountEmitted(c.total_message_count), r6,
                    "total_message_count", c.total_message_count)
        r8 == PutIf(ChatCountEmitted(c.message_count_today), r7,
                    "message_count_today", c.message_count_today)
        r9 == PutIf(ChatCountEmitted(c.message_count_last_7_days), r8,
                    "message_count_last_7_days", c.message_count_last_7_days)
        r10 == PutIf(Truthy(c.message_velocity_last_7_days), r9,
                     "message_velocity_last_7_days",
                     c.message_velocity_last_7_days)
        r11 == PutIf(IsNotNone(c.participant_count), r10, "participant_count",
                     c.participant_count)
        r12 == PutIf(Truthy(c.participant_names), r11, "participant_names",
                     c.participant_names)
        r13 == PutIf(Truthy(c.participant_list), r12, "participant_list",
                     c.participant_list)
        r14 == PutIf(Truthy(c.most_active_member_name), r13,
                     "most_active_member_name", c.most_active_member_name)
        r15 == PutIf(IsNotNone(c.most_active_member_message_count), r14,
                     "most_active_member_message_count",
                     c.most_active_member_message_count)
        r16 == PutIf(Truthy(c.admin_list), r15, "admin_list", c.admin_list)
        r17 == PutIf(Truthy(c.chat_type), r16, "chat_type", c.chat_type)
        r18 == PutIf(IsNotNone(c.silent_duration_seconds), r17,
                     "silent_duration_seconds", c.silent_duration_seconds)
        r19 == PutIf(Truthy(c.is_recently_active), r18, "is_recently_active",
                     c.is_recently_active)
        r20 == PutIf(Truthy(c.media_count_by_type), r19, "media_count_by_type",
                     c.media_count_by_type)
        r21 == PutIf(Truthy(c.recent_media), r20, "recent_media", c.recent_media)
        r22 == PutIf(Truthy(c.has_media), r21, "has_media", c.has_media)
        r23 == PutIf(Truthy(c.is_disappearing_messages), r22,
                     "is_disappearing_messages", c.is_disappearing_messages)
        r24 == PutIf(IsNotNone(c.disappearing_ttl), r23, "disappearing_ttl",
                     c.disappearing_ttl)
        r25 == PutIf(Truthy(c.last_sender_contact_info), r24,
                     "last_sender_contact_info", c.last_sender_contact_info)
        r26 == PutIf(Truthy(c.timezone), r25, "timezone", c.timezone)
    IN  PyDict(r26)

ChatArgs ==
    { Chat(PyStr(j), n, lt) :
        j \in Jids, n \in {None, PyStr(<<"n">>)}, lt \in OptDateTimeValues }

ChatInit ==
    /\ chat \in ChatArgs
    /\ chatOut = NoDict

ChatSetField(f, v) ==
    /\ chatOut = NoDict
    /\ chat[f] # v
    /\ SetFields([chat EXCEPT ![f] = v], ChatDefaults) <= MaxSetFields
    /\ chat' = [chat EXCEPT ![f] = v]
    /\ UNCHANGED <<chatOut, notChatVars>>

ChatToDict ==
    /\ chatOut = NoDict
    /\ chatOut' = Chat_to_dict(chat)
    /\ UNCHANGED <<chat, notChatVars>>

(***************************************************************************)
(* lib/models.py: Contact.                                                 *)
(***************************************************************************)
ContactRequiredFields == {"phone_number", "name", "jid"}

ContactDefaults ==
    [ first_name |-> None,
      full_name |-> None,
      push_name |-> None,
      business_name |-> None,
      nickname |-> None,
      relationship_type |-> None,
      is_favorite |-> PyBool(FALSE),
      contact_created_date |-> None,
      shared_group_list |-> PyList(<<>>),
      shared_group_count |-> None,
      total_message_count |-> None,
      message_count_today |-> None,
      message_count_last_7_days |-> None,
      message_count_last_30_days |-> None,
      activity_trend |-> PyDict(EmptyDict),
      typical_response_time_seconds |-> None,
      typical_reply_rate |-> None,
      is_responsive |-> PyBool(FALSE),
      days_since_last_message |-> None,
      last_seen_timestamp |-> None,
      timezone |-> None,
      organization |-> None,
      status_message |-> None,
      latest_message_preview |-> None,
      latest_message_timestamp |-> None,
      has_active_chat |-> PyBool(FALSE),
      recent_chat_jid |-> None ]

ContactOptionalFields == DOMAIN ContactDefaults

ContactDateFields ==
    {"contact_created_date", "last_seen_timestamp", "latest_message_timestamp"}

ContactFieldValues(f) ==
    CASE f \in {"first_name", "full_name", "push_name", "business_name",
                "nickname", "relationship_type", "timezone", "organization",
                "status_message", "latest_message_preview", "recent_chat_jid"}
            -> OptStrValues
      [] f \in {"is_favorite", "is_responsive", "has_active_chat"} -> BoolValues
      [] f \in ContactDateFields -> OptDateTimeValues
      [] f = "shared_group_list" -> ListValues
      [] f \in {"shared_group_count", "total_message_count",
                "message_count_today", "message_count_last_7_days",
                "message_count_last_30_days", "typical_response_time_seconds",
                "days_since_last_message"}
            -> OptIntValues
      [] f = "activity_trend" -> DictValues
      [] f = "typical_reply_rate" -> OptFloatValues

\* Contact(phone_number, name, jid)
Contact(phone_number, name, jid) ==
    [ f \in ContactRequiredFields \cup ContactOptionalFields |->
        CASE f = "phone_number" -> phone_number
          [] f = "name" -> name
          [] f = "jid" -> jid
          [] OTHER -> ContactDefaults[f] ]

ContactRequired(c) ==
    [ k \in {"jid", "phone_number", "name"} |->
        CASE k = "jid" -> c.jid
          [] k = "phone_number" -> c.phone_number
          [] k = "name" -> c.name ]

\* ContactCountEmitted as the truth test `if self.<counter>:`
ContactCountEmittedTruthy(v) == Truthy(v)

\* `if self.<counter> is not None:` of the activity counters of a Contact
ContactCountEmitted(v) == IsNotNone(v)

Contact_to_dict(c) ==
    LET r0 == ContactRequired(c)
        r1 == PutIf(Truthy(c.first_name), r0, "first_name", c.first_name)
        r2 == PutIf(Truthy(c.full_name), r1, "full_name", c.full_name)
        r3 == PutIf(Truthy(c.push_name), r2, "push_name", c.push_name)
        r4 == PutIf(Truthy(c.business_name), r3, "business_name", c.business_name)
        r5 == PutIf(Truthy(c.nickname), r4, "nickname", c.nickname)
        r6 == PutIf(Truthy(c.relationship_type), r5, "relationship_type",
                    c.relationship_type)
        r7 == PutIf(Truthy(c.is_favorite), r6, "is_favorite", c.is_favorite)
        r8 == PutIf(Truthy(c.contact_created_date), r7, "contact_created_date",
                    IsoFormat(c.contact_created_date))
        r9 == PutIf(Truthy(c.shared_group_list), r8, "shared_group_list",
                    c.shared_group_list)
        r10 == PutIf(ContactCountEmitted(c.shared_group_count), r9,
                     "shared_group_count", c.shared_group_count)
        r11 == PutIf(ContactCountEmitted(c.total_message_count), r10,
                     "total_message_count", c.total_message_count)
        r12 == PutIf(ContactCountEmitted(c.message_count_today), r11,
                     "message_count_today", c.message_count_today)
        r13 == PutIf(ContactCountEmitted(c.message_count_last_7_days), r12,
                     "message_count_last_7_days", c.message_count_last_7_days)
        r14 == PutIf(ContactCountEmitted(c.message_count_last_30_days), r13,
                     "message_count_last_30_days", c.message_count_last_30_days)
        r15 == PutIf(Truthy(c.activity_trend), r14, "activity_trend",
                     c.activity_trend)
        r16 == PutIf(ContactCountEmitted(c.typical_response_time_seconds), r15,
                     "typical_response_time_seconds",
                     c.typical_response_time_seconds)
        r17 == PutIf(IsNotNone(c.typical_reply_rate), r16, "typical_reply_rate",
                     c.typical_reply_rate)
        r18 == PutIf(Truthy(c.is_responsive), r17, "is_responsive",
                     c.is_responsive)
        r19 == PutIf(ContactCountEmitted(c.days_since_last_message), r18,
                     "days_since_last_message", c.days_since_last_message)
        r20 == PutIf(Truthy(c.last_seen_timestamp), r19, "last_seen_timestamp",
                     IsoFormat(c.last_seen_timestamp))
        r21 == PutIf(Truthy(c.timezone), r20, "timezone", c.timezone)
        r22 == PutIf(Truthy(c.organization), r21, "organization", c.organization)
        r23 == PutIf(Truthy(c.status_message), r22, "status_message",
                     c.status_message)
        r24 == PutIf(Truthy(c.latest_message_preview), r23,
                     "latest_message_preview", c.latest_message_preview)
        r25 == PutIf(Truthy(c.latest_message_timestamp), r24,
                     "latest_message_timestamp",
                     IsoFormat(c.latest_message_timestamp))
        r26 == PutIf(Truthy(c.has_active_chat), r25, "has_active_chat",
                     c.has_active_chat)
        r27 == PutIf(Truthy(c.recent_chat_jid), r26, "recent_chat_jid",
                     c.recent_chat_jid)
    IN  PyDict(r27)

ContactArgs ==
    { Contact(PyStr(p), n, PyStr(j)) :
        p \in {<<>>, <<"2">>}, n \in {None, PyStr(<<"n">>)}, j \in Jids }

ContactInit ==
    /\ contact \in ContactArgs
    /\ contactOut = NoDict

ContactSetField(f, v) ==
    /\ contactOut = NoDict
    /\ contact[f] # v
    /\ SetFields([contact EXCEPT ![f] = v], ContactDefaults) <= MaxSetFields
    /\ contact' = [contact EXCEPT ![f] = v]
    /\ UNCHANGED <<contactOut, notContactVars>>

ContactToDict ==
    /\ contactOut = NoDict
    /\ contactOut' = Contact_to_dict(contact)
    /\ UNCHANGED <<contact, notContactVars>>
(***************************************************************************)
(* lib/bridge.py: the bridge client.                                       *)
(*                                                                         *)
(* requests.post / requests.get either raise ConnectionError or Timeout or *)
(* return a Response; Response.raise_for_status() raises HTTPError for a   *)
(* status of 400 to 599 and nothing otherwise; Response.json() raises      *)
(* requests' JSONDecodeError for a body that is no JSON.  All four are     *)
(* subclasses of requests.RequestException.                                *)
(***************************************************************************)
BridgeOps ==
    {"send_message", "send_file", "send_reaction", "edit_message",
     "delete_message", "mark_read", "get_group_info", "create_group",
     "create_poll"}

\* os.getenv(name, default)
getenv(e, name, default) == IF e[name] = None THEN default ELSE e[name]

\* lib/utils.py, which is not part of the sources at hand, defines
\* WHATSAPP_API_BASE_URL when it is imported: the base URL the environment
\* configures, or the default
DefaultBaseUrl == PyStr(<<"http://localhost:8080/api">>)
utils_WHATSAPP_API_BASE_URL(e) == getenv(e, "WHATSAPP_API_URL", DefaultBaseUrl)

\* `from .utils import logger, WHATSAPP_API_BASE_URL`: the name is bound in
\* lib/bridge.py to the value lib/utils.py holds at that moment
ImportUtils(e) == WHATSAPP_API_BASE_URL = utils_WHATSAPP_API_BASE_URL(e)

TimeoutDefault == 30
TimeoutFile == 60

SampleJid == PyStr(<<"1">> \o GroupSuffix)
SampleId == PyStr(<<"m">>)
SenderJids == {None, PyStr(<<>>), PyStr(<<"2">> \o DirectSuffix)}

\* the arguments the operations are called with
BridgeArgs(op) ==
    CASE op = "send_message" ->
            {[recipient |-> SampleJid, message |-> PyStr(<<"h", "i">>)]}
      [] op = "send_file" ->
            {[recipient |-> SampleJid, media_path |-> PyStr(<<"/", "f">>)]}
      [] op = "send_reaction" ->
            {[chat_jid |-> SampleJid, message_id |-> SampleId,
              emoji |-> PyStr(<<>>)]}
      [] op = "edit_message" ->
            {[chat_jid |-> SampleJid, message_id |-> SampleId,
              new_content |-> PyStr(<<"x">>)]}
      [] op = "delete_message" ->
            {[chat_jid |-> SampleJid, message_id |-> SampleId, sender_jid |-> s] :
                s \in SenderJids}
      [] op = "mark_read" ->
            {[chat_jid |-> SampleJid, message_ids |-> PyList(<<SampleId>>),
              sender_jid |-> s] : s \in SenderJids}
      [] op = "get_group_info" -> {[group_jid |-> SampleJid]}
      [] op = "create_group" ->
            {[name |-> PyStr(<<"n">>), participants |-> PyList(<<SampleJid>>)]}
      [] op = "create_poll" ->
            {[chat_jid |-> SampleJid, question |-> PyStr(<<"q">>),
              options |-> PyList(<<PyStr(<<"a">>), PyStr(<<"b">>)>>),
              multi_select |-> PyBool(FALSE)]}

\* get_headers with `if api_key is not None:` for `if api_key:`
get_headers_when_set(e) ==
    LET headers == [h \in {"Content-Type"} |-> PyStr(<<"application/json">>)]
        api_key == e.API_KEY
    IN  PutIf(IsNotNone(api_key), headers, "X-API-Key", api_key)

\* _get_headers(), with os.getenv("API_KEY") read from the environment e
get_headers(e) ==
    LET headers == [h \in {"Content-Type"} |-> PyStr(<<"application/json">>)]
        api_key == e.API_KEY
    IN  PutIf(Truthy(api_key), headers, "X-API-Key", api_key)

\* requests.post or requests.get
BridgeMethod(op) == IF op = "get_group_info" THEN "GET" ELSE "POST"

\* the f-string of the URL, as its pieces
BridgeUrl(op, args) ==
    CASE op \in {"send_message", "send_file"} -> WHATSAPP_API_BASE_URL.v \o <<"/send">>
      [] op = "send_reaction" -> WHATSAPP_API_BASE_URL.v \o <<"/reaction">>
      [] op = "edit_message" -> WHATSAPP_API_BASE_URL.v \o <<"/edit">>
      [] op = "delete_message" -> WHATSAPP_API_BASE_URL.v \o <<"/delete">>
      [] op = "mark_read" -> WHATSAPP_API_BASE_URL.v \o <<"/read">>
      [] op = "get_group_info" ->
            WHATSAPP_API_BASE_URL.v \o <<"/group/">> \o args.group_jid.v
      [] op = "create_group" -> WHATSAPP_API_BASE_URL.v \o <<"/group/create">>
      [] op = "create_poll" -> WHATSAPP_API_BASE_URL.v \o <<"/poll/create">>

\* a request that carries no json= argument
NoBody == [k \in {} |-> None]

\* WithSender with `if sender_jid is not None:` for `if sender_jid:`
WithSenderWhenGiven(payload, sender_jid) ==
    PutIf(IsNotNone(sender_jid), payload, "sender_jid", sender_jid)

\* the payload of delete_message and mark_read
WithSender(payload, sender_jid) ==
    PutIf(Truthy(sender_jid), payload, "sender_jid", sender_jid)

\* the json= argument
BridgeJson(op, args) ==
    CASE op = "send_message" ->
            [recipient |-> args.recipient, message |-> args.message]
      [] op = "send_file" ->
            [recipient |-> args.recipient, message |-> PyStr(<<>>),
             media_path |-> args.media_path]
      [] op = "send_reaction" ->
            [chat_jid |-> args.chat_jid, message_id |-> args.message_id,
             emoji |-> args.emoji]
      [] op = "edit_message" ->
            [chat_jid |-> args.chat_jid, message_id |-> args.message_id,
             new_content |-> args.new_content]
      [] op = "delete_message" ->
            WithSender([chat_jid |-> args.chat_jid, message_id |-> args.message_id],
                       args.sender_jid)
      [] op = "mark_read" ->
            WithSender([chat_jid |-> args.chat_jid, message_ids |-> args.message_ids],
                       args.sender_jid)
      [] op = "get_group_info" -> NoBody
      [] op = "create_group" ->
            [name |-> args.name, participants |-> args.participants]
      [] op = "create_poll" ->
            [chat_jid |-> args.chat_jid, question |-> args.question,
             options |-> args.options, multi_select |-> args.multi_select]

\* BridgeTimeout with timeout=30 in send_file too
BridgeTimeoutSame(op) == TimeoutDefault

\* the timeout= argument
BridgeTimeout(op) ==
    IF op = "send_file" THEN TimeoutFile ELSE TimeoutDefault

\* the HTTP request one operation issues
BridgeRequest(op, args, e) ==
    [ method |-> BridgeMethod(op),
      url |-> BridgeUrl(op, args),
      json |-> BridgeJson(op, args),
      headers |-> get_headers(e),
      timeout |-> BridgeTimeout(op) ]

\* the text the BridgeError message starts with
BridgeErrorPrefix(op) ==
    CASE op = "send_message" -> "Failed to send message: "
      [] op = "send_file" -> "Failed to send file: "
      [] op = "send_reaction" -> "Failed to send reaction: "
      [] op = "edit_message" -> "Failed to edit message: "
      [] op = "delete_message" -> "Failed to delete message: "
      [] op = "mark_read" -> "Failed to mark as read: "
      [] op = "get_group_info" -> "Failed to get group info: "
      [] op = "create_group" -> "Failed to create group: "
      [] op = "create_poll" -> "Failed to create poll: "

\* the bodies the bridge answers with: a JSON object or text that is no JSON
PayloadOk == PyDict([success |-> PyBool(TRUE), message |-> PyStr(<<"sent">>)])
PayloadFailed == PyDict([success |-> PyBool(FALSE), message |-> PyStr(<<"offline">>)])
NotJson == [t |-> "notjson"]

\* what the HTTP call of one operation ends with: an exception of requests,
\* or a response with its status and body
Outcomes ==
    { [exc |-> "ConnectionError", status |-> 0, body |-> NotJson],
      [exc |-> "Timeout", status |-> 0, body |-> NotJson],
      [exc |-> "none", status |-> 200, body |-> PayloadOk],
      [exc |-> "none", status |-> 200, body |-> PayloadFailed],
      [exc |-> "none", status |-> 200, body |-> NotJson],
      [exc |-> "none", status |-> 304, body |-> PayloadOk],
      [exc |-> "none", status |-> 404, body |-> PayloadFailed],
      [exc |-> "none", status |-> 500, body |-> NotJson] }

\* Response.raise_for_status() raises
RaisesForStatus(status) == 400 <= status /\ status < 600

\* the exception raised inside the try block, "none" when it runs to its return
RaisedInTry(o) ==
    CASE o.exc # "none" -> o.exc
      [] RaisesForStatus(o.status) -> "HTTPError"
      [] o.body = NotJson -> "JSONDecodeError"
      [] OTHER -> "none"

\* IsRequestException as `except requests.HTTPError`
IsHTTPErrorOnly(exc) == exc = "HTTPError"

\* `except requests.RequestException as e` catches the exception
IsRequestException(exc) ==
    exc \in {"ConnectionError", "Timeout", "HTTPError", "JSONDecodeError"}

NoCause == "none"

Returned(value) ==
    [kind |-> "return", value |-> value, exc |-> "none", cause |-> NoCause,
     message |-> <<>>]
Raised(exc, cause, message) ==
    [kind |-> "raise", value |-> None, exc |-> exc, cause |-> cause,
     message |-> message]

\* what one operation ends with for the outcome of its HTTP call:
\* `return response.json()`, or `raise BridgeError(f"...: {e}") from e`
BridgeResult(op, o) ==
    LET e == RaisedInTry(o)
    IN  IF e = "none" THEN Returned(o.body)
        ELSE IF IsRequestException(e)
             THEN Raised("BridgeError", e, <<BridgeErrorPrefix(op), e>>)
             ELSE Raised(e, NoCause, <<e>>)

\* the record of an invocation that has ended
BridgeDone(call, o, r) ==
    [pc |-> "done", op |-> call.op, args |-> call.args, sent |-> call.sent,
     outcome |-> o, result |-> r]

\* BridgeExcept as a retry: the request is issued once more before the raise
BridgeExceptRetry(call, o, r) ==
    IF Len(call.sent) < 2
    THEN [call EXCEPT !.sent = Append(@, call.sent[1])]
    ELSE BridgeDone(call, o, r)

\* the except clause: it logs the error and raises, which ends the invocation
BridgeExcept(call, o, r) == BridgeDone(call, o, r)

Callers == {"a", "b"}

Idle == [pc |-> "idle"]

ApiKeys == {None, PyStr(<<>>), PyStr(<<"k">>)}
BaseUrls == {None, PyStr(<<"http://bridge:9090/api">>)}

\* the process starts with its environment and imports lib/bridge.py
BridgeStart(urls) ==
    /\ env \in {[API_KEY |-> k, WHATSAPP_API_URL |-> u] : k \in ApiKeys, u \in urls}
    /\ ImportUtils(env)
    /\ calls = [c \in Callers |-> Idle]

BridgeInit == BridgeStart({None})

\* os.environ["API_KEY"] = k, or its removal
SetEnv(k) ==
    /\ env.API_KEY # k
    /\ env' = [env EXCEPT !.API_KEY = k]
    /\ UNCHANGED <<WHATSAPP_API_BASE_URL, calls, notBridgeVars>>

\* the variable of the environment that configures the base URL is set or removed
SetEnvUrl(u) ==
    /\ env.WHATSAPP_API_URL # u
    /\ env' = [env EXCEPT !.WHATSAPP_API_URL = u]
    /\ UNCHANGED <<WHATSAPP_API_BASE_URL, calls, notBridgeVars>>

\* an operation is called and issues its HTTP request
BridgeCall(c, op, args) ==
    /\ calls[c].pc = "idle"
    /\ calls' = [calls EXCEPT ![c] =
                    [pc |-> "waiting", op |-> op, args |-> args,
                     sent |-> <<BridgeRequest(op, args, env)>>]]
    /\ UNCHANGED <<env, WHATSAPP_API_BASE_URL, notBridgeVars>>

\* BridgeReceive with the response kept in a global of the module: every
\* invocation that waits takes it
BridgeReceiveShared(c, o) ==
    /\ calls[c].pc = "waiting"
    /\ calls' = [d \in Callers |->
                    IF calls[d].pc = "waiting"
                    THEN BridgeDone(calls[d], o, BridgeResult(calls[c].op, o))
                    ELSE calls[d]]
    /\ UNCHANGED <<env, WHATSAPP_API_BASE_URL, notBridgeVars>>

\* the HTTP call ends and the operation runs to its return or raise
BridgeReceive(c, o) ==
    /\ calls[c].pc = "waiting"
    /\ LET call == calls[c]
           r == BridgeResult(call.op, o)
       IN  calls' = [calls EXCEPT ![c] =
                        IF r.kind = "raise"
                        THEN BridgeExcept(call, o, r)
                        ELSE BridgeDone(call, o, r)]
    /\ UNCHANGED <<env, WHATSAPP_API_BASE_URL, notBridgeVars>>

\* the caller takes the result
BridgeReturn(c) ==
    /\ calls[c].pc = "done"
    /\ calls' = [calls EXCEPT ![c] = Idle]
    /\ UNCHANGED <<env, WHATSAPP_API_BASE_URL, notBridgeVars>>
(***************************************************************************)
(* whatsapp.py, the module the tool surfaces import their operations from. *)
(* It is not part of the sources at hand: its operations are modelled from *)
(* the specification (a bridge failure becomes the pair (False, message))  *)
(* and from the callers, which unpack a pair (success, message).           *)
(***************************************************************************)
PyTuple(x) == [t |-> "tuple", v |-> x]
\* str(x) of a dict x: text, not the dict
PyReprStr(x) == [t |-> "str", repr |-> x]

MutatingTools ==
    {"send_message", "send_file", "send_audio_message", "send_reaction",
     "edit_message", "delete_message", "mark_read"}

\* the bridge client operation behind an operation of whatsapp.py
WhatsappBridgeOp(name) ==
    IF name = "send_audio_message" THEN "send_file" ELSE name

\* whatsapp.<name>(...): the pair (success, message)
WhatsappCall(name, o) ==
    LET r == BridgeResult(WhatsappBridgeOp(name), o)
    IN  IF r.kind = "raise"
        THEN <<PyBool(FALSE), PyStr(r.message)>>
        ELSE <<r.value.v.success, r.value.v.message>>

(***************************************************************************)
(* main.py, sse_main.py, gradio-main.py: the mutating tools.               *)
(***************************************************************************)
Variants == {"main", "sse", "gradio"}

\* the mutating tools a variant defines
VariantTools(variant) ==
    CASE variant = "main" -> MutatingTools
      [] variant = "sse" -> {"send_message", "send_file", "send_audio_message"}
      [] variant = "gradio" -> {"send_message", "send_file", "send_audio_message"}

Recipients == {PyStr(<<>>), SampleJid}

\* the arguments the tools are called with
ToolArgs(name) ==
    CASE name = "send_message" ->
            {[recipient |-> r, message |-> PyStr(<<"h", "i">>)] : r \in Recipients}
      [] name \in {"send_file", "send_audio_message"} ->
            {[recipient |-> r, media_path |-> PyStr(<<"/", "f">>)] : r \in Recipients}
      [] name = "send_reaction" ->
            {[chat_jid |-> SampleJid, message_id |-> SampleId, emoji |-> PyStr(<<>>)]}
      [] name = "edit_message" ->
            {[chat_jid |-> SampleJid, message_id |-> SampleId,
              new_content |-> PyStr(<<"x">>)]}
      [] name = "delete_message" ->
            {[chat_jid |-> SampleJid, message_id |-> SampleId, sender_jid |-> None]}
      [] name = "mark_read" ->
            {[chat_jid |-> SampleJid, message_ids |-> PyList(<<SampleId>>),
              sender_jid |-> None]}

RecipientMissing == PyStr(<<"Recipient must be provided">>)

\* {"success": success, "message": message}
SuccessMessage(success, message) ==
    PyDict([success |-> success, message |-> message])

\* one call of whatsapp.py made by a tool, and the pair it returned
Underlying(name, o) == [name |-> name, outcome |-> o, pair |-> WhatsappCall(name, o)]

\* what a tool did: the calls of whatsapp.py it made and the value it returned
ToolDone(variant, name, args, made, ret) ==
    [variant |-> variant, name |-> name, args |-> args, made |-> made, ret |-> ret]

\* MainTool with the success flag dropped: {"success": True, ...} whatever the pair
MainToolAlwaysSuccess(name, args, o) ==
    IF name = "send_message" /\ ~Truthy(args.recipient)
    THEN ToolDone("main", name, args, <<>>,
                  SuccessMessage(PyBool(FALSE), RecipientMissing))
    ELSE LET u == Underlying(name, o)
         IN  ToolDone("main", name, args, <<u>>,
                      SuccessMessage(PyBool(TRUE), u.pair[2]))

\* main.py: `success, message = whatsapp_<name>(...)`, then the dict;
\* send_message first checks `if not recipient`
MainTool(name, args, o) ==
    IF name = "send_message" /\ ~Truthy(args.recipient)
    THEN ToolDone("main", name, args, <<>>,
                  SuccessMessage(PyBool(FALSE), RecipientMissing))
    ELSE LET u == Underlying(name, o)
         IN  ToolDone("main", name, args, <<u>>,
                      SuccessMessage(u.pair[1], u.pair[2]))

\* sse_main.py: `return whatsapp_<name>(...)`
SseTool(name, args, o) ==
    LET u == Underlying(name, o)
    IN  ToolDone("sse", name, args, <<u>>, PyTuple(u.pair))

\* gradio-main.py: as main.py, and `return str(result)`
GradioTool(name, args, o) ==
    IF name = "send_message" /\ ~Truthy(args.recipient)
    THEN ToolDone("gradio", name, args, <<>>,
                  PyReprStr(SuccessMessage(PyBool(FALSE), RecipientMissing)))
    ELSE LET u == Underlying(name, o)
         IN  ToolDone("gradio", name, args, <<u>>,
                      PyReprStr(SuccessMessage(u.pair[1], u.pair[2])))

NoTool == [variant |-> "none"]

ToolInit == tool = NoTool

MainInvoke(name, args, o) ==
    /\ tool' = MainTool(name, args, o)
    /\ UNCHANGED notToolVars

SseInvoke(name, args, o) ==
    /\ tool' = SseTool(name, args, o)
    /\ UNCHANGED notToolVars

GradioInvoke(name, args, o) ==
    /\ tool' = GradioTool(name, args, o)
    /\ UNCHANGED notToolVars

(***************************************************************************)
(* whatsapp.py: the nickname override store.  The module is not part of    *)
(* the sources at hand; the store is modelled from the specification: a    *)
(* table of rows (jid, nickname, updated_at), written by an upsert and a   *)
(* delete, each of them one transaction of the store.  A write on a store  *)
(* that cannot be reached returns (False, message) and changes nothing.    *)
(***************************************************************************)
\* how many nickname writes (set, remove) are invoked in one behaviour
MaxWrites == 2

NickJids == {PyStr(<<"1">> \o DirectSuffix), PyStr(<<"2">> \o DirectSuffix)}
Nicknames == {PyStr(<<>>), PyStr(<<"A", "l">>), PyStr(<<"B", "o">>)}

NicknameRow(jid, nickname, updated_at) ==
    [jid |-> jid, nickname |-> nickname, updated_at |-> updated_at]

\* the rows of the table that override jid
NicknameRows(table, jid) == {r \in table : r.jid = jid}

\* what an operation on the store leaves: the table and the value returned
StoreDone(table, ret) == [table |-> table, ret |-> ret]

StoreFailed(table) ==
    StoreDone(table, <<PyBool(FALSE), PyStr(<<"store unavailable">>)>>)

\* set_contact_nickname(jid, nickname): the upsert
whatsapp_set_contact_nickname(table, jid, nickname, now, up) ==
    IF ~up
    THEN StoreFailed(table)
    ELSE StoreDone((table \ NicknameRows(table, jid))
                        \cup {NicknameRow(jid, nickname, now)},
                   <<PyBool(TRUE), PyStr(<<"nickname set">>)>>)

\* get_contact_nickname(jid): the nickname of the row of jid, or None
whatsapp_get_contact_nickname(table, jid) ==
    IF NicknameRows(table, jid) = {}
    THEN None
    ELSE (CHOOSE r \in NicknameRows(table, jid) : TRUE).nickname

\* remove_contact_nickname(jid): the delete; whether removing an override
\* that is not there counts as a success is left open (absentOk)
whatsapp_remove_contact_nickname(table, jid, up, absentOk) ==
    IF ~up
    THEN StoreFailed(table)
    ELSE StoreDone(table \ NicknameRows(table, jid),
                   <<PyBool(NicknameRows(table, jid) # {} \/ absentOk),
                     PyStr(<<"nickname removed">>)>>)

(***************************************************************************)
(* main.py, gradio-main.py: the nickname tools.                            *)
(***************************************************************************)
\* an f-string: the text made of these parts
PyFormat(parts) == [t |-> "str", parts |-> parts]

\* set_nickname with the two arguments passed in the wrong order
set_nickname_swapped(table, jid, nickname, now, up) ==
    LET r == whatsapp_set_contact_nickname(table, nickname, jid, now, up)
    IN  StoreDone(r.table, SuccessMessage(r.ret[1], r.ret[2]))

\* main.py set_nickname
set_nickname(table, jid, nickname, now, up) ==
    LET r == whatsapp_set_contact_nickname(table, jid, nickname, now, up)
    IN  StoreDone(r.table, SuccessMessage(r.ret[1], r.ret[2]))

\* main.py get_nickname: `if nickname:` decides between the two texts
get_nickname(table, jid) ==
    LET nickname == whatsapp_get_contact_nickname(table, jid)
    IN  StoreDone(table,
            IF Truthy(nickname)
            THEN PyFormat(<<PyStr(<<"Nickname for ">>), jid, PyStr(<<": ">>), nickname>>)
            ELSE PyFormat(<<PyStr(<<"No nickname set for ">>), jid>>))

\* main.py remove_nickname
remove_nickname(table, jid, up, absentOk) ==
    LET r == whatsapp_remove_contact_nickname(table, jid, up, absentOk)
    IN  StoreDone(r.table, SuccessMessage(r.ret[1], r.ret[2]))

\* gradio-main.py set_contact_nickname
set_contact_nickname(table, jid, nickname, now, up) ==
    LET r == whatsapp_set_contact_nickname(table, jid, nickname, now, up)
    IN  StoreDone(r.table, PyReprStr(SuccessMessage(r.ret[1], r.ret[2])))

\* gradio-main.py get_contact_nickname
get_contact_nickname(table, jid) ==
    LET nickname == whatsapp_get_contact_nickname(table, jid)
    IN  StoreDone(table, PyReprStr(PyDict([jid |-> jid, nickname |-> nickname])))

\* gradio-main.py remove_contact_nickname
remove_contact_nickname(table, jid, up, absentOk) ==
    LET r == whatsapp_remove_contact_nickname(table, jid, up, absentOk)
    IN  StoreDone(r.table, PyReprStr(SuccessMessage(r.ret[1], r.ret[2])))

NickVariants == {"main", "gradio"}
NickOps == {"set", "get", "remove"}
NickWrites == {"set", "remove"}

\* the tool of a variant behind an operation, applied to the table
NickTool(call, table, now, up, absentOk) ==
    CASE call.variant = "main" /\ call.op = "set" ->
            set_nickname(table, call.jid, call.nickname, now, up)
      [] call.variant = "main" /\ call.op = "get" -> get_nickname(table, call.jid)
      [] call.variant = "main" /\ call.op = "remove" ->
            remove_nickname(table, call.jid, up, absentOk)
      [] call.variant = "gradio" /\ call.op = "set" ->
            set_contact_nickname(table, call.jid, call.nickname, now, up)
      [] call.variant = "gradio" /\ call.op = "get" ->
            get_contact_nickname(table, call.jid)
      [] call.variant = "gradio" /\ call.op = "remove" ->
            remove_contact_nickname(table, call.jid, up, absentOk)

\* the success flag of the value a set or remove tool returned
NickSucceeded(ret) ==
    IF "repr" \in DOMAIN ret THEN ret.repr.v.success.v ELSE ret.v.success.v

NoWrite == [op |-> "none"]
NickIdleCall == [pc |-> "idle"]

NoNickLog ==
    [invoked |-> 0, clock |-> 0, target |-> None,
     sets |-> [j \in NickJids |-> {}],
     applied |-> [j \in NickJids |-> NoWrite],
     completed |-> [j \in NickJids |-> "none"]]

NickInit ==
    /\ contact_nicknames = {}
    /\ nick = [c \in Callers |-> NickIdleCall]
    /\ nickLog = NoNickLog

\* a caller invokes a nickname tool
NickInvoke(c, variant, op, jid, nickname) ==
    /\ nick[c].pc = "idle"
    /\ op \in NickWrites => nickLog.invoked < MaxWrites
    /\ nick' = [nick EXCEPT ![c] =
                    [pc |-> "called", variant |-> variant, op |-> op, jid |-> jid,
                     nickname |-> IF op = "set" THEN nickname ELSE None]]
    /\ nickLog' = [nickLog EXCEPT
                    !.invoked = IF op \in NickWrites THEN @ + 1 ELSE @,
                    !.sets[jid] = IF op = "set" THEN @ \cup {nickname} ELSE @]
    /\ UNCHANGED <<contact_nicknames, notNickVars>>

\* the tool runs its one operation on the store and builds its result
NickApply(c, up, absentOk) ==
    /\ nick[c].pc = "called"
    /\ LET call == nick[c]
           r == NickTool(call, contact_nicknames, nickLog.clock + 1, up, absentOk)
           wrote == call.op \in NickWrites /\ NickSucceeded(r.ret)
       IN  /\ contact_nicknames' = r.table
           /\ nick' = [nick EXCEPT ![c] =
                        [pc |-> "returning", variant |-> call.variant, op |-> call.op,
                         jid |-> call.jid, nickname |-> call.nickname, ret |-> r.ret,
                         seen |-> nickLog.applied[call.jid]]]
           /\ nickLog' = [nickLog EXCEPT
                    !.clock = IF wrote THEN @ + 1 ELSE @,
                    !.target = IF wrote THEN call.jid ELSE @,
                    !.applied[call.jid] =
                        IF ~wrote THEN @
                        ELSE IF call.op = "set"
                             THEN [op |-> "set", nickname |-> call.nickname]
                             ELSE [op |-> "remove"]]
    /\ UNCHANGED notNickVars

\* the tool returns to its caller
NickReturn(c) ==
    /\ nick[c].pc = "returning"
    /\ nick' = [nick EXCEPT ![c] = NickIdleCall]
    /\ nickLog' = [nickLog EXCEPT
                    !.completed[nick[c].jid] =
                        IF nick[c].op \in NickWrites THEN nick[c].op ELSE @]
    /\ UNCHANGED <<contact_nicknames, notNickVars>>

(***************************************************************************)
(* Text: case, order and search, on the characters.                        *)
(***************************************************************************)
UpperCase ==
    <<"A", "B", "C", "D", "E", "F", "G", "H", "I", "J", "K", "L", "M",
      "N", "O", "P", "Q", "R", "S", "T", "U", "V", "W", "X", "Y", "Z">>
LowerCase ==
    <<"a", "b", "c", "d", "e", "f", "g", "h", "i", "j", "k", "l", "m",
      "n", "o", "p", "q", "r", "s", "t", "u", "v", "w", "x", "y", "z">>
Digits == <<"0", "1", "2", "3", "4", "5", "6", "7", "8", "9">>
\* the characters in code point order, as far as the samples use them
CodeOrder == <<"\t", "\n", " ", "!", ".">> \o Digits \o <<"@">> \o UpperCase \o LowerCase

IndexOf(seq, x) == CHOOSE i \in 1..Len(seq) : seq[i] = x
InSeq(seq, x) == \E i \in 1..Len(seq) : seq[i] = x

\* str.lower(), one character
Lower(ch) == IF InSeq(UpperCase, ch) THEN LowerCase[IndexOf(UpperCase, ch)] ELSE ch
\* str.lower()
LowerStr(s) == [i \in 1..Len(s) |-> Lower(s[i])]

\* s < t, comparing code points from the left
StrLess(s, t) ==
    \E k \in 1..(Len(s) + 1) :
        /\ k <= Len(t)
        /\ \A i \in 1..(k - 1) : s[i] = t[i]
        /\ \/ k = Len(s) + 1
           \/ IndexOf(CodeOrder, s[k]) < IndexOf(CodeOrder, t[k])

\* sub in s
Contains(s, sub) ==
    \E i \in 0..(Len(s) - Len(sub)) : SubSeq(s, i + 1, i + Len(sub)) = sub

\* sorted(seq) under the strict order Before on the indices of seq, which
\* breaks ties by row order: the element with k - 1 elements before it is
\* the k-th
SortedBy(seq, Before(_, _)) ==
    LET n == Len(seq)
        rank(i) == 1 + Cardinality({j \in 1..n : Before(j, i)})
    IN  [k \in 1..n |-> seq[CHOOSE i \in 1..n : rank(i) = k]]

\* seq[offset : offset + limit]
Slice(seq, offset, limit) ==
    IF offset >= Len(seq) \/ limit <= 0
    THEN <<>>
    ELSE SubSeq(seq, offset + 1,
                IF offset + limit < Len(seq) THEN offset + limit ELSE Len(seq))

\* seq without the repetitions of an element after its first occurrence
Dedupe(seq) ==
    LET first == {i \in 1..Len(seq) : \A j \in 1..(i - 1) : seq[j] # seq[i]}
        nth(k) == CHOOSE i \in first : Cardinality({j \in first : j < i}) = k - 1
    IN  [k \in 1..Cardinality(first) |-> seq[nth(k)]]

\* the sequences of at most n different elements of a set
DistinctSeqs(S, n) ==
    UNION {{seq \in [1..k -> S] : \A i, j \in 1..k : seq[i] = seq[j] => i = j} :
            k \in 0..n}

(***************************************************************************)
(* The local store: the tables the Local Store Reader queries.             *)
(***************************************************************************)
\* how many rows the messages table holds at most
MaxMessages == 3

ChatA == PyStr(<<"1">> \o DirectSuffix)
ChatB == PyStr(<<"9">> \o GroupSuffix)
ChatUnknown == PyStr(<<"0">> \o DirectSuffix)
SenderA == PyStr(<<"1">>)
SenderB == PyStr(<<"2">>)
Times == {1, 2, 3}

\* datetime.isoformat() of the sample times, and datetime.fromisoformat():
\* -1 stands for the ValueError a text that is no date raises
IsoOf(n) == PyStr(<<"T", Digits[n + 1]>>)
FromIso(s) ==
    IF s.t = "str" /\ Len(s.v) = 2 /\ s.v[1] = "T" /\ InSeq(Digits, s.v[2])
    THEN IndexOf(Digits, s.v[2]) - 1
    ELSE -1

\* a row of the messages table, less its id
MessageRow(timestamp, chat_jid, sender, content) ==
    [timestamp |-> timestamp, chat_jid |-> chat_jid, sender |-> sender,
     content |-> PyStr(content)]

\* the rows the sample tables are made of
MessageRows ==
    { MessageRow(1, ChatA, SenderA, <<"H", "i">>),
      MessageRow(2, ChatA, SenderB, <<"y", "o">>),
      MessageRow(2, ChatB, SenderA, <<"o", "h", " ", "h", "i">>),
      MessageRow(3, ChatB, SenderB, <<"Y", "o">>),
      MessageRow(3, ChatA, SenderA, <<"y", "o">>) }

\* the i-th row inserted gets the id m<i>
WithIds(seq) ==
    [i \in 1..Len(seq) |->
        [id |-> PyStr(<<"m", Digits[i + 1]>>), timestamp |-> seq[i].timestamp,
         chat_jid |-> seq[i].chat_jid, sender |-> seq[i].sender,
         content |-> seq[i].content]]

MessageTables ==
    UNION {{WithIds(seq) : seq \in [1..n -> MessageRows]} : n \in 0..MaxMessages}

(***************************************************************************)
(* whatsapp.py: list_messages, the Local Store Reader's query of the       *)
(* messages table.  Modelled from the specification: the provided filters  *)
(* all apply, the matches are ordered most recent first and cut to the     *)
(* page, and with include_context each match of the page brings the        *)
(* messages around it in its chat, the whole in chronological order and    *)
(* without repetition.                                                     *)
(***************************************************************************)
ListMessagesParams(after, before, sender_phone_number, chat_jid, query, limit, page,
                   include_context, context_before, context_after) ==
    [after |-> after, before |-> before, sender_phone_number |-> sender_phone_number,
     chat_jid |-> chat_jid, query |-> query, limit |-> limit, page |-> page,
     include_context |-> include_context, context_before |-> context_before,
     context_after |-> context_after]

\* the WHERE clause: one condition for each filter that is given
MessageSelected(m, p) ==
    /\ IsNotNone(p.after) => m.timestamp >= FromIso(p.after)
    /\ IsNotNone(p.before) => m.timestamp < FromIso(p.before)
    /\ IsNotNone(p.sender_phone_number) => m.sender = p.sender_phone_number
    /\ IsNotNone(p.chat_jid) => m.chat_jid = p.chat_jid
    /\ IsNotNone(p.query) => Contains(LowerStr(m.content.v), LowerStr(p.query.v))

\* ORDER BY timestamp DESC, rows of one timestamp in row order
MostRecentFirst(rows) ==
    SortedBy(rows, LAMBDA i, j :
        \/ rows[i].timestamp > rows[j].timestamp
        \/ rows[i].timestamp = rows[j].timestamp /\ i < j)

\* ORDER BY timestamp ASC, rows of one timestamp in row order
Chronological(rows) ==
    SortedBy(rows, LAMBDA i, j :
        \/ rows[i].timestamp < rows[j].timestamp
        \/ rows[i].timestamp = rows[j].timestamp /\ i < j)

\* the messages of the chat of m, oldest first
ChatHistory(table, m) ==
    Chronological(SelectSeq(table, LAMBDA x : x.chat_jid = m.chat_jid))

\* m with the `before` messages that precede it and the `after` messages
\* that follow it in its chat
ContextWindow(table, m, before, after) ==
    LET history == ChatHistory(table, m)
        at == IndexOf(history, m)
        lo == IF at - before < 1 THEN 1 ELSE at - before
        hi == IF at + after > Len(history) THEN Len(history) ELSE at + after
    IN  SubSeq(history, lo, hi)

RECURSIVE Windows(_, _, _, _)
\* the context windows of the matches, one after the other
Windows(table, matches, before, after) ==
    IF matches = <<>>
    THEN <<>>
    ELSE ContextWindow(table, Head(matches), before, after)
            \o Windows(table, Tail(matches), before, after)

\* the matches of one page, most recent first
MessagePage(table, p) ==
    Slice(MostRecentFirst(SelectSeq(table, LAMBDA m : MessageSelected(m, p))),
          p.page * p.limit, p.limit)

\* list_messages(after, before, sender_phone_number, chat_jid, query, limit,
\* page, include_context, context_before, context_after)
whatsapp_list_messages(table, p) ==
    IF \/ IsNotNone(p.after) /\ FromIso(p.after) < 0
       \/ IsNotNone(p.before) /\ FromIso(p.before) < 0
    THEN Raised("ValueError", NoCause, <<>>)
    ELSE IF p.include_context
         THEN Returned(PyList(Chronological(Dedupe(
                Windows(table, MessagePage(table, p), p.context_before,
                        p.context_after)))))
         ELSE Returned(PyList(MessagePage(table, p)))

(***************************************************************************)
(* main.py, sse_main.py, gradio-main.py: list_messages.                    *)
(***************************************************************************)
\* a parameter the caller does not give
Absent == [t |-> "absent"]
\* the value a parameter is bound to: the argument, or its default
Arg(args, name, default) == IF args[name] = Absent THEN default ELSE args[name]

\* what a read of the store did: the parameters the tool passed to whatsapp.py
\* and the value the tool returned
ReadDone(variant, name, args, passed, result) ==
    [variant |-> variant, name |-> name, args |-> args, passed |-> passed,
     result |-> result]

\* main.py list_messages with after and before passed one for the other
MainListMessagesBoundsSwapped(table, args) ==
    LET passed == ListMessagesParams(
            Arg(args, "before", None), Arg(args, "after", None), None,
            Arg(args, "chat_jid", None), Arg(args, "query", None),
            Arg(args, "limit", PyInt(20)).v, Arg(args, "page", PyInt(0)).v, FALSE, 1, 1)
    IN  ReadDone("main", "list_messages", args, passed,
                 whatsapp_list_messages(table, passed))

\* main.py list_messages with limit and page passed one for the other
MainListMessagesSwapped(table, args) ==
    LET passed == ListMessagesParams(
            Arg(args, "after", None), Arg(args, "before", None), None,
            Arg(args, "chat_jid", None), Arg(args, "query", None),
            Arg(args, "page", PyInt(0)).v, Arg(args, "limit", PyInt(20)).v, FALSE, 1, 1)
    IN  ReadDone("main", "list_messages", args, passed,
                 whatsapp_list_messages(table, passed))

\* main.py list_messages: no sender filter, no context
MainListMessages(table, args) ==
    LET passed == ListMessagesParams(
            Arg(args, "after", None), Arg(args, "before", None), None,
            Arg(args, "chat_jid", None), Arg(args, "query", None),
            Arg(args, "limit", PyInt(20)).v, Arg(args, "page", PyInt(0)).v, FALSE, 1, 1)
    IN  ReadDone("main", "list_messages", args, passed,
                 whatsapp_list_messages(table, passed))

\* sse_main.py list_messages with context_before and context_after passed
\* one for the other
SseListMessagesSwapped(table, args) ==
    LET passed == ListMessagesParams(
            Arg(args, "after", None), Arg(args, "before", None),
            Arg(args, "sender_phone_number", None), Arg(args, "chat_jid", None),
            Arg(args, "query", None), Arg(args, "limit", PyInt(20)).v, Arg(args, "page", PyInt(0)).v,
            Arg(args, "include_context", PyBool(TRUE)).v, Arg(args, "context_after", PyInt(1)).v,
            Arg(args, "context_before", PyInt(1)).v)
    IN  ReadDone("sse", "list_messages", args, passed,
                 whatsapp_list_messages(table, passed))

\* sse_main.py list_messages: the ten parameters, by position
SseListMessages(table, args) ==
    LET passed == ListMessagesParams(
            Arg(args, "after", None), Arg(args, "before", None),
            Arg(args, "sender_phone_number", None), Arg(args, "chat_jid", None),
            Arg(args, "query", None), Arg(args, "limit", PyInt(20)).v, Arg(args, "page", PyInt(0)).v,
            Arg(args, "include_context", PyBool(TRUE)).v, Arg(args, "context_before", PyInt(1)).v,
            Arg(args, "context_after", PyInt(1)).v)
    IN  ReadDone("sse", "list_messages", args, passed,
                 whatsapp_list_messages(table, passed))

\* `x if x else None`
EmptyToNone(x) == IF Truthy(x) THEN x ELSE None

\* str(value) of what whatsapp.py returned; an exception goes through
StrOf(r) == IF r.kind = "return" THEN Returned(PyReprStr(r.value)) ELSE r

\* gradio-main.py list_messages: the empty strings become None
GradioListMessages(table, args) ==
    LET passed == ListMessagesParams(
            EmptyToNone(Arg(args, "after", PyStr(<<>>))),
            EmptyToNone(Arg(args, "before", PyStr(<<>>))),
            EmptyToNone(Arg(args, "sender_phone_number", PyStr(<<>>))),
            EmptyToNone(Arg(args, "chat_jid", PyStr(<<>>))),
            EmptyToNone(Arg(args, "query", PyStr(<<>>))),
            Arg(args, "limit", PyInt(20)).v, Arg(args, "page", PyInt(0)).v,
            Arg(args, "include_context", PyBool(TRUE)).v, Arg(args, "context_before", PyInt(1)).v,
            Arg(args, "context_after", PyInt(1)).v)
    IN  ReadDone("gradio", "list_messages", args, passed,
                 StrOf(whatsapp_list_messages(table, passed)))

list_messages(variant, table, args) ==
    CASE variant = "main" -> MainListMessages(table, args)
      [] variant = "sse" -> SseListMessages(table, args)
      [] variant = "gradio" -> GradioListMessages(table, args)

(***************************************************************************)
(* whatsapp.py: list_chats.  Modelled from the specification: the query    *)
(* matches the name or the JID, "name" orders by name without regard to    *)
(* case, "last_active" by the last message time, the chats without a       *)
(* message last.                                                           *)
(***************************************************************************)
\* how many rows the chats table holds at most
MaxChats == 3

ChatRow(jid, name, last_message_time) ==
    [jid |-> jid, name |-> PyStr(name), last_message_time |-> last_message_time,
     last_message |-> IF IsNotNone(last_message_time) THEN PyStr(<<"y", "o">>) ELSE None]

ChatRows ==
    { ChatRow(ChatA, <<"a", "l">>, PyDateTime(2)),
      ChatRow(ChatB, <<"B", "o">>, PyDateTime(3)),
      ChatRow(ChatUnknown, <<"b", "O", "b">>, None),
      ChatRow(PyStr(<<"8">> \o GroupSuffix), <<"A", "L">>, PyDateTime(1)) }

ChatTables == DistinctSeqs(ChatRows, MaxChats)

SortByName == PyStr(<<"n", "a", "m", "e">>)
SortByLastActive == PyStr(<<"l", "a", "s", "t", "_", "a", "c", "t", "i", "v", "e">>)

ListChatsParams(query, limit, page, include_last_message, sort_by) ==
    [query |-> query, limit |-> limit, page |-> page,
     include_last_message |-> include_last_message, sort_by |-> sort_by]

ChatSelected(c, p) ==
    IsNotNone(p.query) =>
        \/ Contains(LowerStr(c.name.v), LowerStr(p.query.v))
        \/ Contains(c.jid.v, p.query.v)

\* ORDER BY LOWER(name)
ByName(rows) ==
    SortedBy(rows, LAMBDA i, j :
        \/ StrLess(LowerStr(rows[i].name.v), LowerStr(rows[j].name.v))
        \/ LowerStr(rows[i].name.v) = LowerStr(rows[j].name.v) /\ i < j)

\* ORDER BY last_message_time DESC, the chats without a message last
ByLastActive(rows) ==
    LET time(i) ==
            IF IsNotNone(rows[i].last_message_time)
            THEN rows[i].last_message_time.v
            ELSE -1
    IN  SortedBy(rows, LAMBDA i, j :
            \/ time(i) > time(j)
            \/ time(i) = time(j) /\ i < j)

\* the row as returned: the last message only when it is asked for
ChatReturned(c, include_last_message) ==
    [jid |-> c.jid, name |-> c.name, last_message_time |-> c.last_message_time,
     last_message |-> IF include_last_message THEN c.last_message ELSE None]

\* list_chats(query, limit, page, include_last_message, sort_by)
whatsapp_list_chats(table, p) ==
    LET selected == SelectSeq(table, LAMBDA c : ChatSelected(c, p))
        ordered == IF p.sort_by = SortByName
                   THEN ByName(selected)
                   ELSE ByLastActive(selected)
        page == Slice(ordered, p.page * p.limit, p.limit)
    IN  Returned(PyList(
            [i \in 1..Len(page) |-> ChatReturned(page[i], p.include_last_message)]))

(***************************************************************************)
(* main.py, sse_main.py, gradio-main.py: list_chats.                       *)
(***************************************************************************)
\* main.py list_chats that leaves sort_by at its default
MainListChatsDefaultSort(table, args) ==
    LET passed == ListChatsParams(
            Arg(args, "query", None), Arg(args, "limit", PyInt(20)).v,
            Arg(args, "page", PyInt(0)).v,
            Arg(args, "include_last_message", PyBool(TRUE)).v, SortByLastActive)
    IN  ReadDone("main", "list_chats", args, passed, whatsapp_list_chats(table, passed))

\* main.py list_chats
MainListChats(table, args) ==
    LET passed == ListChatsParams(
            Arg(args, "query", None), Arg(args, "limit", PyInt(20)).v,
            Arg(args, "page", PyInt(0)).v,
            Arg(args, "include_last_message", PyBool(TRUE)).v,
            Arg(args, "sort_by", SortByLastActive))
    IN  ReadDone("main", "list_chats", args, passed, whatsapp_list_chats(table, passed))

\* sse_main.py list_chats
SseListChats(table, args) ==
    LET passed == ListChatsParams(
            Arg(args, "query", None), Arg(args, "limit", PyInt(20)).v,
            Arg(args, "page", PyInt(0)).v,
            Arg(args, "include_last_message", PyBool(TRUE)).v,
            Arg(args, "sort_by", SortByLastActive))
    IN  ReadDone("sse", "list_chats", args, passed, whatsapp_list_chats(table, passed))

\* gradio-main.py list_chats: the empty query becomes None
GradioListChats(table, args) ==
    LET passed == ListChatsParams(
            EmptyToNone(Arg(args, "query", PyStr(<<>>))),
            Arg(args, "limit", PyInt(20)).v, Arg(args, "page", PyInt(0)).v,
            Arg(args, "include_last_message", PyBool(TRUE)).v,
            Arg(args, "sort_by", SortByLastActive))
    IN  ReadDone("gradio", "list_chats", args, passed,
                 StrOf(whatsapp_list_chats(table, passed)))

list_chats(variant, table, args) ==
    CASE variant = "main" -> MainListChats(table, args)
      [] variant = "sse" -> SseListChats(table, args)
      [] variant = "gradio" -> GradioListChats(table, args)

(***************************************************************************)
(* lib/database.py: get_chat_statistics, search_contacts and               *)
(* get_message_word_count.  The module is not part of the sources at hand  *)
(* (its tests are): the three are modelled from the specification.  Time   *)
(* is counted in days.                                                     *)
(***************************************************************************)
Count(seq, Test(_)) == Cardinality({i \in 1..Len(seq) : Test(seq[i])})

\* get_chat_statistics whose two conditional sums are the SUM of no row,
\* NULL, for a chat without messages
get_chat_statistics_null(table, jid, now) ==
    LET ofChat == SelectSeq(table, LAMBDA m : m.chat_jid = jid)
    IN  IF ofChat = <<>>
        THEN Returned(PyTuple(<<PyInt(0), None, None>>))
        ELSE Returned(PyTuple(
                <<PyInt(Len(ofChat)),
                  PyInt(Count(ofChat, LAMBDA m : m.timestamp = now)),
                  PyInt(Count(ofChat, LAMBDA m : m.timestamp >= now - 7))>>))

\* get_chat_statistics(jid, conn): (total, today, last 7 days)
get_chat_statistics(table, jid, now) ==
    LET ofChat == SelectSeq(table, LAMBDA m : m.chat_jid = jid)
    IN  Returned(PyTuple(
            <<PyInt(Len(ofChat)),
              PyInt(Count(ofChat, LAMBDA m : m.timestamp = now)),
              PyInt(Count(ofChat, LAMBDA m : m.timestamp >= now - 7))>>))

\* str.isspace(), one character
IsSpace(ch) == ch \in {" ", "\t", "\n"}

RECURSIVE SplitFrom(_, _, _, _)
\* str.split(): the scan from character i on, cur the token being read and
\* acc the tokens read
SplitFrom(s, i, cur, acc) ==
    LET closed == IF cur = <<>> THEN acc ELSE Append(acc, cur)
    IN  IF i > Len(s) THEN closed
        ELSE IF IsSpace(s[i]) THEN SplitFrom(s, i + 1, <<>>, closed)
        ELSE SplitFrom(s, i + 1, Append(cur, s[i]), acc)

Split(s) == SplitFrom(s, 1, <<>>, <<>>)

RECURSIVE SplitOnFrom(_, _, _, _, _)
\* str.split(sep): every sep ends a token, the empty ones included
SplitOnFrom(s, sep, i, cur, acc) ==
    IF i > Len(s) THEN Append(acc, cur)
    ELSE IF s[i] = sep THEN SplitOnFrom(s, sep, i + 1, <<>>, Append(acc, cur))
    ELSE SplitOnFrom(s, sep, i + 1, Append(cur, s[i]), acc)

\* the word count taken as len(content.split(" "))
get_message_word_count_split_on_space(content) ==
    IF ~Truthy(content) THEN 0 ELSE Len(SplitOnFrom(content.v, " ", 1, <<>>, <<>>))

\* get_message_word_count(content): len(content.split()), 0 without content
get_message_word_count(content) ==
    IF ~Truthy(content) THEN 0 ELSE Len(Split(content.v))

\* how many rows the contacts table holds at most
MaxContacts == 3

ContactRow(jid, phone_number, name, full_name, push_name, business_name) ==
    [jid |-> jid, phone_number |-> PyStr(phone_number), name |-> PyStr(name),
     first_name |-> None, full_name |-> full_name, push_name |-> push_name,
     business_name |-> business_name]

ContactRows ==
    { ContactRow(PyStr(<<"1">> \o DirectSuffix), <<"1">>, <<"J", "o">>,
                 None, None, None),
      ContactRow(PyStr(<<"2">> \o DirectSuffix), <<"2">>, <<"A", "l">>,
                 PyStr(<<"A", "l", " ", "J", "o">>), None, None),
      ContactRow(PyStr(<<"3">> \o DirectSuffix), <<"3">>, <<"B", "o">>,
                 None, PyStr(<<"j", "j">>), PyStr(<<"J", "O", "B">>)),
      ContactRow(PyStr(<<"4">> \o DirectSuffix), <<"4", "1">>, <<"C", "y">>,
                 None, None, None) }

ContactTables == DistinctSeqs(ContactRows, MaxContacts)

\* the nickname tables the searches run against: an override or none for
\* each of the first three contacts
NicknameTables ==
    { {NicknameRow(PyStr(<<d>> \o DirectSuffix), PyStr(<<"N", d>>), 1) : d \in D} :
        D \in SUBSET {"1", "2", "3"} }

SearchQueries ==
    {PyStr(<<>>), PyStr(<<"j", "o">>), PyStr(<<"1">>), PyStr(<<"z", "z">>)}

\* the text fields of a contact a search looks into
ContactSearched(c) ==
    {c.name, c.phone_number, c.first_name, c.full_name, c.push_name, c.business_name}

ContactSelected(c, query) ==
    \E x \in ContactSearched(c) :
        IsNotNone(x) /\ Contains(LowerStr(x.v), LowerStr(query.v))

\* SELECT jid, nickname FROM contact_nicknames WHERE jid IN (jids): the
\* nickname of each of the jids, or None
NicknamesOf(table, jids) ==
    [jid \in jids |-> whatsapp_get_contact_nickname(table, jid)]

WithNickname(c, nickname) ==
    [jid |-> c.jid, phone_number |-> c.phone_number, name |-> c.name,
     first_name |-> c.first_name, full_name |-> c.full_name,
     push_name |-> c.push_name, business_name |-> c.business_name,
     nickname |-> nickname]

\* what a search did: the contacts it returns and the queries it ran
Searched(found, queries) == [contacts |-> found, queries |-> queries]

\* search_contacts(query): one query for the matches, one for all their
\* nicknames
whatsapp_search_contacts(table, nicknames, query) ==
    LET selected == SelectSeq(table, LAMBDA c : ContactSelected(c, query))
        jids == {selected[i].jid : i \in 1..Len(selected)}
        byJid == NicknamesOf(nicknames, jids)
    IN  IF selected = <<>>
        THEN Searched(<<>>, 1)
        ELSE Searched([i \in 1..Len(selected) |->
                            WithNickname(selected[i], byJid[selected[i].jid])], 2)

\* format_contact_info(contact): the text that describes a contact
whatsapp_format_contact_info(c) == [t |-> "str", info |-> c]

(***************************************************************************)
(* main.py, sse_main.py, gradio-main.py: search_contacts.                  *)
(***************************************************************************)
SearchDone(variant, query, s, queries, result) ==
    [variant |-> variant, name |-> "search_contacts", args |-> query,
     passed |-> query, found |-> s.contacts, queries |-> queries, result |-> result]

NoContactsFound == PyStr(<<"No contacts found matching your query.">>)

\* the text main.py builds from the contacts found
ContactsText(found) ==
    IF found = <<>>
    THEN NoContactsFound
    ELSE PyFormat(<<PyStr(<<"Found ">>), PyInt(Len(found)), PyStr(<<" contact(s):\n\n">>)>>
                  \o [i \in 1..Len(found) |-> whatsapp_format_contact_info(found[i])])

\* main.py search_contacts that looks the nickname of each contact up again
\* in its loop over the contacts
MainSearchContactsLookupEach(table, nicknames, query) ==
    LET s == whatsapp_search_contacts(table, nicknames, query)
    IN  SearchDone("main", query, s, s.queries + Len(s.contacts),
                   Returned(ContactsText(s.contacts)))

\* main.py search_contacts
MainSearchContacts(table, nicknames, query) ==
    LET s == whatsapp_search_contacts(table, nicknames, query)
    IN  SearchDone("main", query, s, s.queries, Returned(ContactsText(s.contacts)))

\* sse_main.py search_contacts
SseSearchContacts(table, nicknames, query) ==
    LET s == whatsapp_search_contacts(table, nicknames, query)
    IN  SearchDone("sse", query, s, s.queries, Returned(PyList(s.contacts)))

\* gradio-main.py search_contacts
GradioSearchContacts(table, nicknames, query) ==
    LET s == whatsapp_search_contacts(table, nicknames, query)
    IN  SearchDone("gradio", query, s, s.queries,
                   Returned(PyReprStr(PyList(s.contacts))))

search_contacts(variant, table, nicknames, query) ==
    CASE variant = "main" -> MainSearchContacts(table, nicknames, query)
      [] variant = "sse" -> SseSearchContacts(table, nicknames, query)
      [] variant = "gradio" -> GradioSearchContacts(table, nicknames, query)

(***************************************************************************)
(* whatsapp.py: the lookup of one contact.  The module is not part of the  *)
(* sources at hand; the two lookups are modelled from the specification:   *)
(* the contact with that JID, or with that phone number, or None.          *)
(***************************************************************************)
\* the first row of the table that matches, with its nickname, or None
ContactWhere(table, nicknames, Matches(_)) ==
    LET found == SelectSeq(table, Matches)
    IN  IF found = <<>>
        THEN None
        ELSE WithNickname(found[1],
                          whatsapp_get_contact_nickname(nicknames, found[1].jid))

whatsapp_get_contact_by_jid(table, nicknames, jid) ==
    ContactWhere(table, nicknames, LAMBDA c : c.jid = jid)

whatsapp_get_contact_by_phone(table, nicknames, phone_number) ==
    ContactWhere(table, nicknames, LAMBDA c : c.phone_number = phone_number)

(***************************************************************************)
(* main.py, gradio-main.py: get_contact_details.                           *)
(***************************************************************************)
\* one lookup a tool made in the local store, and what it found
Lookup(name, arg, found) == [name |-> name, arg |-> arg, found |-> found]

\* what get_contact_details did: the lookups it made and what it returned
DetailsDone(variant, identifier, made, result) ==
    [variant |-> variant, name |-> "get_contact_details", args |-> identifier,
     made |-> made, result |-> result]

\* f"No contact found for: {identifier}"
NoContactFound(identifier) ==
    PyFormat(<<PyStr(<<"No contact found for: ">>), identifier>>)

\* main.py get_contact_details with the phone number looked up first
MainGetContactDetailsPhoneFirst(table, nicknames, identifier) ==
    LET byPhone == whatsapp_get_contact_by_phone(table, nicknames, identifier)
        byJid == whatsapp_get_contact_by_jid(table, nicknames, identifier)
        first == Lookup("get_contact_by_phone", identifier, byPhone)
        second == Lookup("get_contact_by_jid", identifier, byJid)
    IN  IF byPhone # None
        THEN DetailsDone("main", identifier, <<first>>,
                         Returned(whatsapp_format_contact_info(byPhone)))
        ELSE DetailsDone("main", identifier, <<first, second>>,
                         Returned(IF byJid # None
                                  THEN whatsapp_format_contact_info(byJid)
                                  ELSE NoContactFound(identifier)))

\* main.py get_contact_details: `if not contact:` starts the second lookup;
\* a Contact is true, None is not
MainGetContactDetails(table, nicknames, identifier) ==
    LET byJid == whatsapp_get_contact_by_jid(table, nicknames, identifier)
        byPhone == whatsapp_get_contact_by_phone(table, nicknames, identifier)
        first == Lookup("get_contact_by_jid", identifier, byJid)
        second == Lookup("get_contact_by_phone", identifier, byPhone)
    IN  IF byJid # None
        THEN DetailsDone("main", identifier, <<first>>,
                         Returned(whatsapp_format_contact_info(byJid)))
        ELSE DetailsDone("main", identifier, <<first, second>>,
                         Returned(IF byPhone # None
                                  THEN whatsapp_format_contact_info(byPhone)
                                  ELSE NoContactFound(identifier)))

ContactNotFound == PyStr(<<"Contact not found">>)

\* gradio-main.py get_contact_details(chat_jid)
GradioGetContactDetails(table, nicknames, chat_jid) ==
    LET contact_details == whatsapp_get_contact_by_jid(table, nicknames, chat_jid)
        made == <<Lookup("get_contact_by_jid", chat_jid, contact_details)>>
    IN  DetailsDone("gradio", chat_jid, made,
            Returned(PyReprStr(
                IF contact_details # None
                THEN PyDict([success |-> PyBool(TRUE), contact |-> contact_details])
                ELSE PyDict([success |-> PyBool(FALSE), message |-> ContactNotFound]))))

\* sse_main.py defines no get_contact_details
DetailsVariants == {"main", "gradio"}

get_contact_details(variant, table, nicknames, identifier) ==
    CASE variant = "main" -> MainGetContactDetails(table, nicknames, identifier)
      [] variant = "gradio" -> GradioGetContactDetails(table, nicknames, identifier)

(***************************************************************************)
(* gradio-main.py: the functions of the Gradio UI, which wrap the tools.   *)
(***************************************************************************)
\* result[key]: the value of a mapping; a str takes no str as index
Subscript(result, key) ==
    IF result.t = "dict"
    THEN Returned(result.v[key])
    ELSE Raised("TypeError", NoCause, <<"string indices must be integers">>)

\* f"Status: {result['success']}, Message: {result['message']}"
GradioStatus(result) ==
    LET success == Subscript(result, "success")
        message == Subscript(result, "message")
    IN  IF success.kind = "raise" THEN success
        ELSE IF message.kind = "raise" THEN message
        ELSE Returned(PyFormat(<<PyStr(<<"Status: ">>), success.value,
                                 PyStr(<<", Message: ">>), message.value>>))

\* the tool was not called
NotCalled == [t |-> "notcalled"]

\* what a function of the UI did: the table it leaves, what the tool it
\* wraps returned, and how it ended
WrapperDone(name, args, table, wrapped, result) ==
    [variant |-> "gradio_ui", name |-> name, args |-> args, table |-> table,
     wrapped |-> wrapped, result |-> result]

gradio_send_message(table, recipient, message, o) ==
    LET args == [recipient |-> recipient, message |-> message]
        result == GradioTool("send_message", args, o).ret
    IN  WrapperDone("gradio_send_message", args, table, result, GradioStatus(result))

\* file is the upload, file.name its path
gradio_send_file(table, recipient, file, o) ==
    LET args == [recipient |-> recipient, media_path |-> file.name]
        result == GradioTool("send_file", args, o).ret
    IN  WrapperDone("gradio_send_file", args, table, result, GradioStatus(result))

gradio_send_audio(table, recipient, file, o) ==
    LET args == [recipient |-> recipient, media_path |-> file.name]
        result == GradioTool("send_audio_message", args, o).ret
    IN  WrapperDone("gradio_send_audio", args, table, result, GradioStatus(result))

\* get_contact_details(jid=..., phone_number=...): jid and phone_number are
\* no parameters of get_contact_details(chat_jid), so the call itself raises
\* and the lines that read its result are not reached
gradio_get_contact_details(table, jid, phone_number) ==
    LET args == [jid |-> jid, phone_number |-> phone_number]
    IN  IF ~Truthy(jid) /\ ~Truthy(phone_number)
        THEN WrapperDone("gradio_get_contact_details", args, table, NotCalled,
                Returned(PyStr(<<"Error: Either JID or phone number must be provided">>)))
        ELSE WrapperDone("gradio_get_contact_details", args, table, NotCalled,
                Raised("TypeError", NoCause,
                       <<"get_contact_details() got an unexpected keyword argument 'jid'">>))

gradio_set_contact_nickname(table, jid, nickname, now, up) ==
    LET args == [jid |-> jid, nickname |-> nickname]
    IN  IF ~Truthy(jid) \/ ~Truthy(nickname)
        THEN WrapperDone("gradio_set_contact_nickname", args, table, NotCalled,
                Returned(PyStr(<<"Error: Both JID and nickname must be provided">>)))
        ELSE LET r == set_contact_nickname(table, jid, nickname, now, up)
             IN  WrapperDone("gradio_set_contact_nickname", args, r.table, r.ret,
                             GradioStatus(r.ret))

gradio_remove_contact_nickname(table, jid, up, absentOk) ==
    LET args == [jid |-> jid]
    IN  IF ~Truthy(jid)
        THEN WrapperDone("gradio_remove_contact_nickname", args, table, NotCalled,
                Returned(PyStr(<<"Error: JID must be provided">>)))
        ELSE LET r == remove_contact_nickname(table, jid, up, absentOk)
             IN  WrapperDone("gradio_remove_contact_nickname", args, r.table, r.ret,
                             GradioStatus(r.ret))

\* what a function of the UI leaves alone
notUiVars == <<msgVars, chatVars, contactVars, bridgeVars, nick, nickLog, readVars>>

UiFiles == {[name |-> PyStr(<<"/", "f">>)]}
UiJids == {PyStr(<<>>)} \cup NickJids
UiPhones == {PyStr(<<>>), PyStr(<<"1">>)}

GradioSendMessage(recipient, message, o) ==
    /\ tool' = gradio_send_message(contact_nicknames, recipient, message, o)
    /\ UNCHANGED <<contact_nicknames, notUiVars>>

GradioSendFile(recipient, file, o) ==
    /\ tool' = gradio_send_file(contact_nicknames, recipient, file, o)
    /\ UNCHANGED <<contact_nicknames, notUiVars>>

GradioSendAudio(recipient, file, o) ==
    /\ tool' = gradio_send_audio(contact_nicknames, recipient, file, o)
    /\ UNCHANGED <<contact_nicknames, notUiVars>>

GradioGetDetails(jid, phone_number) ==
    /\ tool' = gradio_get_contact_details(contact_nicknames, jid, phone_number)
    /\ UNCHANGED <<contact_nicknames, notUiVars>>

GradioSetNickname(jid, nickname, up) ==
    /\ tool' = gradio_set_contact_nickname(contact_nicknames, jid, nickname, 1, up)
    /\ contact_nicknames' = tool'.table
    /\ UNCHANGED notUiVars

GradioRemoveNickname(jid, up, absentOk) ==
    /\ tool' = gradio_remove_contact_nickname(contact_nicknames, jid, up, absentOk)
    /\ contact_nicknames' = tool'.table
    /\ UNCHANGED notUiVars

(***************************************************************************)
(* The reads of the local store: the tables are given, each read leaves    *)
(* them as they are.                                                       *)
(***************************************************************************)
\* how long the contents are whose words are counted
MaxContentLen == 5

NoRead == [name |-> "none"]

ReadInit ==
    /\ messages \in MessageTables
    /\ chats \in ChatTables
    /\ contacts \in ContactTables
    /\ read = NoRead

ListMessages(variant, args) ==
    /\ read = NoRead
    /\ read' = list_messages(variant, messages, args)
    /\ UNCHANGED <<tableVars, notReadVars>>

ListChats(variant, args) ==
    /\ read = NoRead
    /\ read' = list_chats(variant, chats, args)
    /\ UNCHANGED <<tableVars, notReadVars>>

\* get_chat_statistics(jid, conn) on the day `now`
GetChatStatistics(jid, now) ==
    /\ read = NoRead
    /\ read' = ReadDone("lib", "get_chat_statistics", [jid |-> jid, now |-> now],
                        jid, get_chat_statistics(messages, jid, now))
    /\ UNCHANGED <<tableVars, notReadVars>>

SearchContacts(variant, query) ==
    /\ read = NoRead
    /\ read' = search_contacts(variant, contacts, contact_nicknames, query)
    /\ UNCHANGED <<tableVars, notReadVars>>

GetMessageWordCount(content) ==
    /\ read = NoRead
    /\ read' = ReadDone("lib", "get_message_word_count", content, content,
                        Returned(PyInt(get_message_word_count(content))))
    /\ UNCHANGED <<tableVars, notReadVars>>

\* the caller takes the result
GetContactDetails(variant, identifier) ==
    /\ read = NoRead
    /\ read' = get_contact_details(variant, contacts, contact_nicknames, identifier)
    /\ UNCHANGED <<tableVars, notReadVars>>

ReadReturn ==
    /\ read # NoRead
    /\ read' = NoRead
    /\ UNCHANGED <<tableVars, notReadVars>>

\* the arguments of list_messages: the ten parameters, Absent when not given
Limits == {PyInt(1), PyInt(2)}
Pages == {PyInt(0), PyInt(1), PyInt(2)}
ContextFlags == {Absent, PyBool(FALSE), PyBool(TRUE)}
ContextSizes == {PyInt(0), PyInt(1), PyInt(2)}

\* the calls that page through the whole table, with and without context
PagingArgs(variant) ==
    IF variant = "main"
    THEN { ListMessagesParams(Absent, Absent, Absent, Absent, Absent, l, p,
                              Absent, Absent, Absent) : l \in Limits, p \in Pages }
    ELSE { ListMessagesParams(Absent, Absent, Absent, Absent, Absent, l, p, ic, cb, ca) :
            l \in Limits, p \in Pages, ic \in ContextFlags, cb \in ContextSizes,
            ca \in ContextSizes }

AfterValues == {Absent, IsoOf(2), IsoOf(3)}
BeforeValues == {Absent, IsoOf(2), IsoOf(3)}
SenderValues(variant) == IF variant = "main" THEN {Absent} ELSE {Absent, SenderA}
ChatJidValues == {Absent, ChatA}
QueryValues == {Absent, PyStr(<<"H">>)}

\* the calls that filter, without context
FilterArgs(variant) ==
    { ListMessagesParams(a, b, s, c, q, PyInt(2), PyInt(0),
                         IF variant = "main" THEN Absent ELSE PyBool(FALSE),
                         Absent, Absent) :
        a \in AfterValues, b \in BeforeValues, s \in SenderValues(variant),
        c \in ChatJidValues, q \in QueryValues }

\* the calls that give an optional text parameter as the empty string
EmptyOr(values) == values \cup {PyStr(<<>>)}
EmptyArgs(variant) ==
    { ListMessagesParams(a, b, s, c, q, PyInt(2), PyInt(0),
                         IF variant = "main" THEN Absent ELSE PyBool(FALSE),
                         Absent, Absent) :
        a \in EmptyOr({Absent, IsoOf(2)}), b \in EmptyOr({Absent, IsoOf(3)}),
        s \in IF variant = "main" THEN {Absent} ELSE EmptyOr({Absent, SenderA}),
        c \in EmptyOr(ChatJidValues), q \in EmptyOr(QueryValues) }

ListChatsArgs ==
    { ListChatsParams(q, l, p, i, s) :
        q \in {Absent, PyStr(<<>>), PyStr(<<"o">>)}, l \in Limits \cup {Absent},
        p \in {PyInt(0), PyInt(1)}, i \in {Absent, PyBool(FALSE)},
        s \in {Absent, SortByName, SortByLastActive} }

StatisticsJids == {ChatA, ChatB, ChatUnknown}
Days == {3, 5, 10, 12}

\* the contents the tests of get_message_word_count count the words of
TestContents ==
    { None, PyStr(<<>>),
      PyStr(<<"H", "e", "l", "l", "o">>),
      PyStr(<<"H", "e", "l", "l", "o", " ", "w", "o", "r", "l", "d">>),
      PyStr(<<"H", "e", "l", "l", "o", " ", "w", "o", "r", "l", "d", "!">>),
      PyStr(<<"o", "n", "e", " ", " ", " ", "t", "w", "o", " ", " ", " ",
              "t", "h", "r", "e", "e">>),
      PyStr(<<" ", " ", " ", "l", "e", "a", "d", "i", "n", "g", " ", "a", "n", "d", " ",
              "t", "r", "a", "i", "l", "i", "n", "g", " ", " ", " ">>) }

ContentChars == {"a", "b", " ", "\t"}
Contents ==
    TestContents
        \cup UNION {{PyStr(s) : s \in [1..n -> ContentChars]} : n \in 0..MaxContentLen}

(***************************************************************************)
(* The specifications: one per part of the program.  Each leaves the       *)
(* variables of the other parts at their initial values.                   *)
(***************************************************************************)
MessageIdle == msg = Message(None, None, None, None, None, None) /\ msgOut = NoDict
ChatIdle == chat = Chat(None, None, None) /\ chatOut = NoDict
ContactIdle == contact = Contact(None, None, None) /\ contactOut = NoDict
BridgeIdle ==
    /\ env = [API_KEY |-> None, WHATSAPP_API_URL |-> None]
    /\ ImportUtils(env)
    /\ calls = [c \in Callers |-> Idle]
ToolIdle == tool = NoTool
NickIdle == NickInit
ReadIdle == messages = <<>> /\ chats = <<>> /\ contacts = <<>> /\ read = NoRead

MessageNext ==
    \/ \E f \in MessageOptionalFields : \E v \in MessageFieldValues(f) :
            MessageSetField(f, v)
    \/ MessageToDict

MessageOnlyInit ==
    MessageInit /\ ChatIdle /\ ContactIdle /\ BridgeIdle /\ ToolIdle /\ NickIdle /\ ReadIdle

SpecMessage == MessageOnlyInit /\ [][MessageNext]_vars

ChatNext ==
    \/ \E f \in ChatOptionalFields : \E v \in ChatFieldValues(f) : ChatSetField(f, v)
    \/ ChatToDict

ChatOnlyInit ==
    ChatInit /\ MessageIdle /\ ContactIdle /\ BridgeIdle /\ ToolIdle /\ NickIdle /\ ReadIdle

SpecChat == ChatOnlyInit /\ [][ChatNext]_vars

ContactNext ==
    \/ \E f \in ContactOptionalFields : \E v \in ContactFieldValues(f) :
            ContactSetField(f, v)
    \/ ContactToDict

ContactOnlyInit ==
    ContactInit /\ MessageIdle /\ ChatIdle /\ BridgeIdle /\ ToolIdle /\ NickIdle /\ ReadIdle

SpecContact == ContactOnlyInit /\ [][ContactNext]_vars

BridgeNext ==
    \/ \E k \in ApiKeys : SetEnv(k)
    \/ \E c \in Callers : \E op \in BridgeOps : \E args \in BridgeArgs(op) :
            BridgeCall(c, op, args)
    \/ \E c \in Callers : \E o \in Outcomes : BridgeReceive(c, o)
    \/ \E c \in Callers : BridgeReturn(c)

BridgeOnlyInit ==
    BridgeInit /\ MessageIdle /\ ChatIdle /\ ContactIdle /\ ToolIdle /\ NickIdle /\ ReadIdle

SpecBridge == BridgeOnlyInit /\ [][BridgeNext]_vars

\* the bridge client under a changing configuration: one caller
ConfigCallers == {"a"}

BridgeConfigNext ==
    \/ \E k \in ApiKeys : SetEnv(k)
    \/ \E u \in BaseUrls : SetEnvUrl(u)
    \/ \E c \in ConfigCallers : \E op \in BridgeOps : \E args \in BridgeArgs(op) :
            BridgeCall(c, op, args)
    \/ \E c \in ConfigCallers : \E o \in Outcomes : BridgeReceive(c, o)
    \/ \E c \in ConfigCallers : BridgeReturn(c)

BridgeConfigOnlyInit ==
    /\ BridgeStart(BaseUrls)
    /\ MessageIdle /\ ChatIdle /\ ContactIdle /\ ToolIdle /\ NickIdle /\ ReadIdle

SpecBridgeConfig == BridgeConfigOnlyInit /\ [][BridgeConfigNext]_vars

ContactDetailsIds ==
    {PyStr(<<>>), PyStr(<<"1">>), PyStr(<<"4", "1">>), PyStr(<<"9">>),
     PyStr(<<"1">> \o DirectSuffix), PyStr(<<"3">> \o DirectSuffix)}

ContactDetailsNext ==
    \/ \E variant \in DetailsVariants : \E identifier \in ContactDetailsIds :
            GetContactDetails(variant, identifier)
    \/ ReadReturn

ContactDetailsOnlyInit ==
    /\ contacts \in ContactTables
    /\ messages = <<>> /\ chats = <<>> /\ read = NoRead
    /\ MessageIdle /\ ChatIdle /\ ContactIdle /\ BridgeIdle /\ ToolIdle /\ NickIdle

SpecContactDetails == ContactDetailsOnlyInit /\ [][ContactDetailsNext]_vars

GradioUiNext ==
    \/ \E r \in Recipients : \E o \in Outcomes :
            GradioSendMessage(r, PyStr(<<"h", "i">>), o)
    \/ \E r \in Recipients : \E file \in UiFiles : \E o \in Outcomes :
            GradioSendFile(r, file, o)
    \/ \E r \in Recipients : \E file \in UiFiles : \E o \in Outcomes :
            GradioSendAudio(r, file, o)
    \/ \E jid \in UiJids : \E phone_number \in UiPhones :
            GradioGetDetails(jid, phone_number)
    \/ \E jid \in UiJids : \E nickname \in Nicknames : \E up \in BOOLEAN :
            GradioSetNickname(jid, nickname, up)
    \/ \E jid \in UiJids : \E up \in BOOLEAN : \E absentOk \in BOOLEAN :
            GradioRemoveNickname(jid, up, absentOk)

GradioUiOnlyInit ==
    /\ ToolInit /\ NickInit /\ ReadIdle
    /\ MessageIdle /\ ChatIdle /\ ContactIdle /\ BridgeIdle

SpecGradioUi == GradioUiOnlyInit /\ [][GradioUiNext]_vars

ToolNext ==
    \/ \E name \in VariantTools("main") : \E args \in ToolArgs(name) :
            \E o \in Outcomes : MainInvoke(name, args, o)
    \/ \E name \in VariantTools("sse") : \E args \in ToolArgs(name) :
            \E o \in Outcomes : SseInvoke(name, args, o)
    \/ \E name \in VariantTools("gradio") : \E args \in ToolArgs(name) :
            \E o \in Outcomes : GradioInvoke(name, args, o)

ToolOnlyInit ==
    ToolInit /\ MessageIdle /\ ChatIdle /\ ContactIdle /\ BridgeIdle /\ NickIdle /\ ReadIdle

SpecTools == ToolOnlyInit /\ [][ToolNext]_vars

EarlierIdle == MessageIdle /\ ChatIdle /\ ContactIdle /\ BridgeIdle /\ ToolIdle

NicknameNext ==
    \/ \E c \in Callers : \E variant \in NickVariants : \E op \in NickOps :
            \E jid \in NickJids : \E nickname \in Nicknames :
                NickInvoke(c, variant, op, jid, nickname)
    \/ \E c \in Callers : \E up \in BOOLEAN : \E absentOk \in BOOLEAN :
            NickApply(c, up, absentOk)
    \/ \E c \in Callers : NickReturn(c)

NicknameOnlyInit == NickInit /\ EarlierIdle /\ ReadIdle

SpecNickname == NicknameOnlyInit /\ [][NicknameNext]_vars

ListMessagesNext ==
    \/ \E variant \in Variants :
            \E args \in PagingArgs(variant) \cup FilterArgs(variant) :
                ListMessages(variant, args)
    \/ ReadReturn

ListMessagesOnlyInit ==
    /\ messages \in MessageTables
    /\ chats = <<>> /\ contacts = <<>> /\ read = NoRead
    /\ EarlierIdle /\ NickIdle

SpecListMessages == ListMessagesOnlyInit /\ [][ListMessagesNext]_vars

\* the tables the calls with empty texts run against: at most one message
OptionalArgsNext ==
    \/ \E variant \in Variants : \E args \in EmptyArgs(variant) :
            ListMessages(variant, args)
    \/ \E variant \in Variants : \E args \in ListChatsArgs : ListChats(variant, args)
    \/ ReadReturn

OptionalArgsOnlyInit ==
    /\ messages \in {t \in MessageTables : Len(t) <= 1}
    /\ chats \in {t \in ChatTables : Len(t) <= 1}
    /\ contacts = <<>> /\ read = NoRead
    /\ EarlierIdle /\ NickIdle

SpecOptionalArgs == OptionalArgsOnlyInit /\ [][OptionalArgsNext]_vars

ListChatsNext ==
    \/ \E variant \in Variants : \E args \in ListChatsArgs : ListChats(variant, args)
    \/ ReadReturn

ListChatsOnlyInit ==
    /\ chats \in ChatTables
    /\ messages = <<>> /\ contacts = <<>> /\ read = NoRead
    /\ EarlierIdle /\ NickIdle

SpecListChats == ListChatsOnlyInit /\ [][ListChatsNext]_vars

StatisticsNext ==
    \/ \E jid \in StatisticsJids : \E now \in Days : GetChatStatistics(jid, now)
    \/ ReadReturn

StatisticsOnlyInit ==
    /\ messages \in MessageTables
    /\ chats = <<>> /\ contacts = <<>> /\ read = NoRead
    /\ EarlierIdle /\ NickIdle

SpecStatistics == StatisticsOnlyInit /\ [][StatisticsNext]_vars

SearchContactsNext ==
    \/ \E variant \in Variants : \E query \in SearchQueries :
            SearchContacts(variant, query)
    \/ ReadReturn

SearchContactsOnlyInit ==
    /\ contacts \in ContactTables
    /\ contact_nicknames \in NicknameTables
    /\ nick = [c \in Callers |-> NickIdleCall]
    /\ nickLog = NoNickLog
    /\ messages = <<>> /\ chats = <<>> /\ read = NoRead
    /\ EarlierIdle

SpecSearchContacts == SearchContactsOnlyInit /\ [][SearchContactsNext]_vars

WordCountNext ==
    \/ \E content \in Contents : GetMessageWordCount(content)
    \/ ReadReturn

WordCountOnlyInit == ReadIdle /\ EarlierIdle /\ NickIdle

SpecWordCount == WordCountOnlyInit /\ [][WordCountNext]_vars

\* the whole program: each part moves on its own
Init ==
    /\ MessageInit /\ ChatInit /\ ContactInit /\ BridgeInit /\ ToolInit
    /\ NickInit /\ ReadInit
Next ==
    \/ MessageNext \/ ChatNext \/ ContactNext \/ BridgeNext \/ ToolNext
    \/ NicknameNext \/ ListMessagesNext \/ OptionalArgsNext \/ ListChatsNext
    \/ StatisticsNext \/ SearchContactsNext \/ WordCountNext
    \/ BridgeConfigNext \/ ContactDetailsNext \/ GradioUiNext
Spec == Init /\ [][Next]_vars
(***************************************************************************)
(* The claims.                                                             *)
(***************************************************************************)
DoneCallers == {c \in Callers : calls[c].pc = "done"}

Is2xx(status) == 200 <= status /\ status < 300

\* the transport-level failures as the specification lists them:
\* connection error, timeout, a status that is not 2xx
TransportFailureAsSpecified(o) ==
    o.exc \in {"ConnectionError", "Timeout"} \/ (o.exc = "none" /\ ~Is2xx(o.status))

\* the transport-level failures of the code: connection error, timeout,
\* a status of 400 to 599
TransportFailure(o) ==
    o.exc \in {"ConnectionError", "Timeout"}
        \/ (o.exc = "none" /\ 400 <= o.status /\ o.status < 600)

\* the exception requests raises for a transport-level failure
TransportCause(o) == IF o.exc # "none" THEN o.exc ELSE "HTTPError"

C2_ExactlyOneRequest ==
    /\ [](\A c \in Callers : calls[c].pc # "idle" => Len(calls[c].sent) = 1)
    /\ [][\A c \in Callers :
            (calls[c].pc = "waiting" /\ calls'[c] # calls[c]) =>
                (calls'[c].pc = "done" /\ calls'[c].sent = calls[c].sent)]_vars

\* C2, witness: an invocation has ended in a BridgeError after one request
C2_Witness ==
    \E c \in DoneCallers :
        /\ calls[c].result.kind = "raise"
        /\ calls[c].outcome.exc = "ConnectionError"
        /\ Len(calls[c].sent) = 1

\* the bridge call behind a tool call failed
UnderlyingFailed(u) == RaisedInTry(u.outcome) # "none"

IsPlainText(x) == x.t = "str"

IsSuccessMessageMapping(x) ==
    /\ x.t = "dict"
    /\ {"success", "message"} \subseteq DOMAIN x.v
    /\ x.v.success.t = "bool"
    /\ x.v.message.t = "str"

\* C4, as stated: in each of the three variants every mutating tool returns
\* plain text or a mapping with a boolean success and a string message.
C4_TextOrSuccessMessage ==
    tool # NoTool => (IsPlainText(tool.ret) \/ IsSuccessMessageMapping(tool.ret))

\* C5, as stated: the is_group that Message.to_dict() emits is true exactly
\* when chat_jid ends with "@g.us".
C5_IsGroupFromChatJid ==
    msgOut # NoDict =>
        msgOut.v["is_group"] = PyBool(EndsWith(msg.chat_jid.v, GroupSuffix))

\* C6, as stated: chat_type is "group" or "individual", "group" exactly when
\* the jid ends with "@g.us", and the chat_type Chat.to_dict() emits never
\* contradicts the is_group it emits.
C6_ChatTypeAgreesWithIsGroup ==
    chatOut # NoDict =>
        /\ chat.chat_type \in {PyStr(ChatTypeGroup), PyStr(ChatTypeIndividual)}
        /\ (chat.chat_type = PyStr(ChatTypeGroup)) <=> EndsWith(chat.jid.v, GroupSuffix)
        /\ "chat_type" \in DOMAIN chatOut.v =>
                ((chatOut.v["chat_type"] = PyStr(ChatTypeGroup))
                    <=> chatOut.v["is_group"].v)

MessageRequiredKeys ==
    {"id", "chat_jid", "timestamp", "sender", "content", "is_from_me", "is_group"}

\* C7: whatever the fields of a Message hold, to_dict() emits the seven keys
\* id, chat_jid, timestamp, sender, content, is_from_me and is_group.
C7_RequiredKeysEmitted ==
    msgOut # NoDict => MessageRequiredKeys \subseteq DOMAIN msgOut.v

\* C7, witness: to_dict() has run on a Message without timestamp, with empty
\* content and with an optional field set
C7_Witness ==
    /\ msgOut # NoDict
    /\ msg.timestamp = None /\ msg.content = PyStr(<<>>)
    /\ SetFields(msg, MessageDefaults) >= 1

\* None, or an empty string, list or mapping
NullOrEmpty(v) ==
    \/ v.t = "none"
    \/ v.t \in {"str", "list"} /\ Len(v.v) = 0
    \/ v.t = "dict" /\ DOMAIN v.v = {}

\* the value v of the field f is null, empty or the default of the field
NullEmptyOrDefault(defaults, f, v) ==
    NullOrEmpty(v) \/ (f \in DOMAIN defaults /\ v = defaults[f])

\* C8, as stated: every key Message.to_dict() emits beyond the seven required
\* ones has a value that is not null, not empty and not the default, and a
\* field that holds a null, empty or default value is omitted.
C8_OptionalKeysHoldValues ==
    msgOut # NoDict =>
        /\ \A k \in DOMAIN msgOut.v \ MessageRequiredKeys :
                ~NullEmptyOrDefault(MessageDefaults, k, msgOut.v[k])
        /\ \A f \in MessageOptionalFields \ MessageRequiredKeys :
                NullEmptyOrDefault(MessageDefaults, f, msg[f]) => f \notin DOMAIN msgOut.v

\* what to_dict() emits for a populated field: the ISO text of a datetime,
\* the stored value of any other field
EmittedValue(v) == IF v.t = "datetime" THEN IsoFormat(v) ELSE v

\* C9: Chat.to_dict() emits jid, name and is_group whatever the Chat holds;
\* every other field that is populated (not null, not empty, not its default;
\* a count of 0 is populated) is emitted with its stored value, the last
\* message time as its ISO text; every other field is omitted.
C9_ChatSparse ==
    chatOut # NoDict =>
        /\ {"jid", "name", "is_group"} \subseteq DOMAIN chatOut.v
        /\ chatOut.v["jid"] = chat.jid /\ chatOut.v["name"] = chat.name
        /\ DOMAIN chatOut.v \subseteq
                {"jid", "name", "is_group", "last_message_time"} \cup ChatOptionalFields
        /\ \A f \in ChatOptionalFields \cup {"last_message_time"} :
                IF NullEmptyOrDefault(ChatDefaults, f, chat[f])
                THEN f \notin DOMAIN chatOut.v
                ELSE f \in DOMAIN chatOut.v /\ chatOut.v[f] = EmittedValue(chat[f])

\* C9, witness: to_dict() has run on a Chat whose total_message_count is 0
\* and whose chat_type is set, with no last message time
C9_Witness ==
    /\ chatOut # NoDict
    /\ chat.total_message_count = PyInt(0)
    /\ chat.chat_type = PyStr(ChatTypeGroup)
    /\ chat.last_message_time = None
    /\ "total_message_count" \in DOMAIN chatOut.v

\* C10: Contact.to_dict() emits jid, phone_number and name whatever the
\* Contact holds; every optional field that is populated (not null, not empty,
\* not its default; a counter of 0 is populated) is emitted with its stored
\* value, a date as its ISO text; every other optional field is omitted.
C10_ContactSparse ==
    contactOut # NoDict =>
        /\ {"jid", "phone_number", "name"} \subseteq DOMAIN contactOut.v
        /\ contactOut.v["jid"] = contact.jid
        /\ contactOut.v["phone_number"] = contact.phone_number
        /\ contactOut.v["name"] = contact.name
        /\ DOMAIN contactOut.v \subseteq
                {"jid", "phone_number", "name"} \cup ContactOptionalFields
        /\ \A f \in ContactOptionalFields :
                IF NullEmptyOrDefault(ContactDefaults, f, contact[f])
                THEN f \notin DOMAIN contactOut.v
                ELSE f \in DOMAIN contactOut.v
                        /\ contactOut.v[f] = EmittedValue(contact[f])

\* C10, witness: to_dict() has run on a Contact with a nickname and with a
\* message_count_today of 0
C10_Witness ==
    /\ contactOut # NoDict
    /\ contact.nickname = PyStr(<<"x">>)
    /\ contact.message_count_today = PyInt(0)
    /\ "message_count_today" \in DOMAIN contactOut.v

\* the get tools in progress that have read the store
NickGets == {c \in Callers : nick[c].pc = "returning" /\ nick[c].op = "get"}

\* the result of a get tool states the nickname n: the text of main.py, the
\* "nickname" entry of gradio-main.py
ReportsNickname(call, n) ==
    IF call.variant = "main"
    THEN call.ret = PyFormat(<<PyStr(<<"Nickname for ">>), call.jid, PyStr(<<": ">>), n>>)
    ELSE call.ret.repr.v.nickname = n

\* the result of a get tool states that no nickname is set
ReportsNoNickname(call) ==
    IF call.variant = "main"
    THEN call.ret = PyFormat(<<PyStr(<<"No nickname set for ">>), call.jid>>)
    ELSE call.ret.repr.v.nickname = None

\* C11 (as claimed): a get_nickname that reads the store after a successful
\* set_nickname(jid, n) reports exactly n, whatever n is; one that reads it
\* after a successful remove_nickname(jid) reports that no nickname is set;
\* and a set or remove on one JID leaves the overrides of the other JIDs
\* as they are.
C11_NicknameRoundTrip ==
    /\ [](\A c \in NickGets :
            /\ nick[c].seen.op = "set" => ReportsNickname(nick[c], nick[c].seen.nickname)
            /\ nick[c].seen.op = "remove" => ReportsNoNickname(nick[c]))
    /\ [][\A j \in NickJids :
            nickLog'.clock # nickLog.clock /\ nickLog'.target # j
                => NicknameRows(contact_nicknames', j) = NicknameRows(contact_nicknames, j)]_vars

\* C12: whatever the interleaving of the set and remove tools, the table
\* holds at most one override per JID and none for anything but a JID a
\* tool was called on; the override of a JID whose last completed write was
\* a set is a nickname some set on that JID was called with; and the last
\* write the store applied to a JID is what the table shows for it (a set
\* is not lost, a removed override is gone).
C12_OneOverridePerJid ==
    /\ \A r \in contact_nicknames : r.jid \in NickJids
    /\ \A j \in NickJids :
        LET rows == NicknameRows(contact_nicknames, j)
        IN  /\ Cardinality(rows) <= 1
            /\ nickLog.completed[j] = "set" =>
                    \A r \in rows : r.nickname \in nickLog.sets[j]
            /\ nickLog.applied[j].op = "set" =>
                    \E r \in rows : r.nickname = nickLog.applied[j].nickname
            /\ nickLog.applied[j].op = "remove" => rows = {}

\* two sets of different nicknames on one JID have both been applied before
\* either returned, and the table holds one override for the JID
C12_Witness ==
    /\ \A c \in Callers :
            /\ nick[c].pc = "returning"
            /\ nick[c].op = "set"
            /\ NickSucceeded(nick[c].ret)
    /\ nick["a"].jid = nick["b"].jid
    /\ nick["a"].nickname # nick["b"].nickname
    /\ Cardinality(NicknameRows(contact_nicknames, nick["a"].jid)) = 1

\* the list a read returned; for gradio-main.py the list its text is the
\* str() of
ReadList(r) ==
    IF "repr" \in DOMAIN r.result.value
    THEN r.result.value.repr.v
    ELSE r.result.value.v

Ids(seq) == {seq[i].id : i \in 1..Len(seq)}
Elements(seq) == {seq[i] : i \in 1..Len(seq)}

\* a list_messages tool has returned a list
ListedMessages == read.name = "list_messages" /\ read.result.kind = "return"

\* the value the last read was called with for a parameter
Given(name, default) == Arg(read.args, name, default)

\* None for a filter that is not given
GivenFilter(name) == IF read.args[name] = Absent THEN None ELSE read.args[name]

\* the list the tool of the last read returns for page q, all else equal
PageOf(q) ==
    ReadList(list_messages(read.variant, messages, [read.args EXCEPT !.page = PyInt(q)]))

\* the results of the last read's filters, most recent first: what the
\* Local Store Reader lists for them on one page that holds the whole table
MostRecentFirstResults ==
    whatsapp_list_messages(messages,
        ListMessagesParams(GivenFilter("after"), GivenFilter("before"),
                           GivenFilter("sender_phone_number"), GivenFilter("chat_jid"),
                           GivenFilter("query"), Len(messages), 0, FALSE, 0, 0)).value.v

\* pages p and q of the last read's call share no message ID, and the
\* page that was read holds offsets p*limit to p*limit+limit-1
PagesApart ==
    LET limit == Given("limit", PyInt(20)).v
        page == Given("page", PyInt(0)).v
    IN  /\ \A q \in 0..Len(messages) :
                q # page => Ids(ReadList(read)) \cap Ids(PageOf(q)) = {}
        /\ ReadList(read) = Slice(MostRecentFirstResults, page * limit, limit)

\* C13 (as claimed): for one table, filters and limit, two different pages
\* of list_messages never share a message ID, and page p holds the results
\* at offsets p*limit to p*limit+limit-1 of the most-recent-first ordering.
C13_PagesNeverOverlap == ListedMessages => PagesApart

\* C13 (amended): the same, for a list_messages that does not expand the
\* matches with their context (include_context false, which is how main.py
\* always calls the reader).
C13_PagesNeverOverlapWithoutContext ==
    ListedMessages /\ ~read.passed.include_context => PagesApart

\* the second page of one message each of a table of three messages
C13_Witness ==
    /\ ListedMessages
    /\ ~read.passed.include_context
    /\ Len(messages) = 3
    /\ read.args.limit = PyInt(1)
    /\ read.args.page = PyInt(1)
    /\ Len(ReadList(read)) = 1

\* message m passes the filter the last read gives for a parameter
PassesAfter(m) == \E n \in Times : IsoOf(n) = read.args.after /\ m.timestamp >= n
PassesBefore(m) == \E n \in Times : IsoOf(n) = read.args.before /\ m.timestamp < n
PassesSender(m) == m.sender = read.args.sender_phone_number
PassesChat(m) == m.chat_jid = read.args.chat_jid
PassesQuery(m) ==
    \E i \in 1..(Len(m.content.v) + 1) : \E j \in 0..Len(m.content.v) :
        LowerStr(SubSeq(m.content.v, i, j)) = LowerStr(read.args.query.v)

PassesAll(m) ==
    /\ read.args.after # Absent => PassesAfter(m)
    /\ read.args.before # Absent => PassesBefore(m)
    /\ read.args.sender_phone_number # Absent => PassesSender(m)
    /\ read.args.chat_jid # Absent => PassesChat(m)
    /\ read.args.query # Absent => PassesQuery(m)

ListedWithContext ==
    /\ ListedMessages
    /\ read.variant # "main"
    /\ Given("include_context", PyBool(TRUE)).v

\* the matches of the page of the last read: what its tool returns for the
\* same call without context
PageMatches ==
    ReadList(list_messages(read.variant, messages,
                           [read.args EXCEPT !.include_context = PyBool(FALSE)]))

\* x is the n-th message of its chat, oldest first
PlaceInChat(x) ==
    Cardinality({y \in Elements(messages) :
        /\ y.chat_jid = x.chat_jid
        /\ \/ y.timestamp < x.timestamp
           \/ y.timestamp = x.timestamp /\ IndexOf(messages, y) <= IndexOf(messages, x)})

\* x is match m, or one of the messages of its chat next to it
AroundMatch(x, m) ==
    /\ x.chat_jid = m.chat_jid
    /\ PlaceInChat(m) - Given("context_before", PyInt(1)).v <= PlaceInChat(x)
    /\ PlaceInChat(x) <= PlaceInChat(m) + Given("context_after", PyInt(1)).v

\* C15: with include_context, list_messages returns each match of the page
\* with the messages of its chat that come at most context_before places
\* before it and at most context_after places after it, and nothing else;
\* the result is in chronological order, and no message is in it twice,
\* also when the context of two matches overlaps.
C15_ContextExpansion ==
    ListedWithContext =>
        LET result == ReadList(read)
        IN  /\ \A i, j \in 1..Len(result) : result[i].id = result[j].id => i = j
            /\ Elements(result)
                    = {x \in Elements(messages) :
                            \E m \in Elements(PageMatches) : AroundMatch(x, m)}
            /\ \A i, j \in 1..Len(result) :
                    i < j => result[i].timestamp <= result[j].timestamp

\* two matches of one chat whose contexts overlap: three messages returned
C15_Witness ==
    /\ ListedWithContext
    /\ Len(messages) = 3
    /\ Len(PageMatches) = 2
    /\ PageMatches[1].chat_jid = PageMatches[2].chat_jid
    /\ Given("context_before", PyInt(1)).v = 1
    /\ Given("context_after", PyInt(1)).v = 1
    /\ Len(ReadList(read)) = 3

\* get_chat_statistics has been called
CountedStatistics == read.name = "get_chat_statistics"

\* C16: get_chat_statistics(jid) returns, it does not fail; its three
\* counts are integers that are not negative; and for a JID without a
\* stored message they are (0, 0, 0).
C16_StatisticsZeroForUnknown ==
    CountedStatistics =>
        /\ read.result.kind = "return"
        /\ Len(read.result.value.v) = 3
        /\ \A i \in 1..3 :
                /\ read.result.value.v[i].t = "int"
                /\ read.result.value.v[i].v >= 0
        /\ (\A m \in Elements(messages) : m.chat_jid # read.args.jid) =>
                read.result.value.v = <<PyInt(0), PyInt(0), PyInt(0)>>

\* the statistics of a chat without messages, in a table of three messages
C16_Witness ==
    /\ CountedStatistics
    /\ Len(messages) = 3
    /\ read.args.jid = ChatUnknown
    /\ read.result.value.v = <<PyInt(0), PyInt(0), PyInt(0)>>

\* a list_chats tool has returned a list
ListedChats == read.name = "list_chats" /\ read.result.kind = "return"

\* C17: list_chats with sort_by="name" returns its chats in ascending
\* order of the lower-cased name: of two adjacent results, the lower-cased
\* name of the second is not less than that of the first.
C17_ListChatsByName ==
    ListedChats /\ Given("sort_by", SortByLastActive) = SortByName =>
        LET result == ReadList(read)
        IN  \A i \in 1..(Len(result) - 1) :
                ~StrLess(LowerStr(result[i + 1].name.v), LowerStr(result[i].name.v))

\* "al" is returned before "Bo": the order of the code points would put
\* the upper-case "B" first
C17_Witness ==
    /\ ListedChats
    /\ Given("sort_by", SortByLastActive) = SortByName
    /\ Len(ReadList(read)) >= 2
    /\ ReadList(read)[1].name = PyStr(<<"a", "l">>)
    /\ ReadList(read)[2].name = PyStr(<<"B", "o">>)

\* a search_contacts tool has returned
SearchedContacts == read.name = "search_contacts"

\* C18: a search_contacts runs at most two queries on the store however
\* many contacts it matches; each contact it returns carries the nickname
\* the override table holds for its JID, None when it holds none; and a
\* query that matches no contact returns the empty sequence.
C18_SearchContactsBulkLookup ==
    SearchedContacts =>
        /\ read.queries <= 2
        /\ \A i \in 1..Len(read.found) :
                LET rows == NicknameRows(contact_nicknames, read.found[i].jid)
                IN  /\ \A r \in rows : read.found[i].nickname = r.nickname
                    /\ rows = {} => read.found[i].nickname = None
        /\ (\A c \in Elements(contacts) : ~ContactSelected(c, read.args)) =>
                read.found = <<>>

\* three contacts are matched, some with an override and some without
C18_Witness ==
    /\ SearchedContacts
    /\ Len(read.found) = 3
    /\ read.queries = 2
    /\ \E i \in 1..3 : read.found[i].nickname # None
    /\ \E i \in 1..3 : read.found[i].nickname = None

\* get_message_word_count has been called
CountedWords == read.name = "get_message_word_count"

\* the places of a text where a run of characters that are no whitespace
\* begins
RunStarts(s) ==
    {i \in 1..Len(s) : ~IsSpace(s[i]) /\ (i = 1 \/ IsSpace(s[i - 1]))}

\* what tests/test_database.py expects of get_message_word_count
TestWordCounts ==
    { <<None, 0>>, <<PyStr(<<>>), 0>>,
      <<PyStr(<<"H", "e", "l", "l", "o">>), 1>>,
      <<PyStr(<<"H", "e", "l", "l", "o", " ", "w", "o", "r", "l", "d">>), 2>>,
      <<PyStr(<<"H", "e", "l", "l", "o", " ", "w", "o", "r", "l", "d", "!">>), 2>>,
      <<PyStr(<<"o", "n", "e", " ", " ", " ", "t", "w", "o", " ", " ", " ",
                "t", "h", "r", "e", "e">>), 3>>,
      <<PyStr(<<" ", " ", " ", "l", "e", "a", "d", "i", "n", "g", " ", "a", "n", "d", " ",
                "t", "r", "a", "i", "l", "i", "n", "g", " ", " ", " ">>), 3>> }

\* C19: the word count of a content is the number of its maximal runs of
\* characters that are no whitespace, so that leading, trailing and
\* repeated whitespace adds nothing; it is 0 for the empty and for the
\* absent content; and it is what the tests expect for their contents.
C19_WordCount ==
    CountedWords =>
        /\ read.result.kind = "return"
        /\ read.result.value =
                IF read.args = None \/ read.args = PyStr(<<>>)
                THEN PyInt(0)
                ELSE PyInt(Cardinality(RunStarts(read.args.v)))
        /\ \A t \in TestWordCounts :
                read.args = t[1] => read.result.value = PyInt(t[2])

\* a content of two words with a tab before them and a space and a tab
\* between them
C19_Witness ==
    /\ CountedWords
    /\ read.args = PyStr(<<"\t", "a", " ", "\t", "b">>)
    /\ read.result.value = PyInt(2)

\* the optional text parameters of the tool of the last read
OptionalTexts ==
    IF read.name = "list_messages"
    THEN {"after", "before", "sender_phone_number", "chat_jid", "query"}
    ELSE {"query"}

\* the parameters the tool of the last read passes on for the arguments args
PassedFor(args) ==
    IF read.name = "list_messages"
    THEN list_messages(read.variant, messages, args).passed
    ELSE list_chats(read.variant, chats, args).passed

\* C20 (as claimed): in every variant, list_messages and list_chats pass
\* the same parameters to the Local Store Reader when an optional text
\* parameter is given as the empty string as when it is not given.
C20_EmptyStringIsAbsent ==
    read.name \in {"list_messages", "list_chats"} =>
        \A f \in OptionalTexts :
            read.args[f] = PyStr(<<>>) =>
                read.passed = PassedFor([read.args EXCEPT ![f] = Absent])

(***************************************************************************)
(* Claims about the requests of the bridge client.                         *)
(***************************************************************************)
\* the invocations that have issued their request
Issued == {c \in Callers : calls[c].pc # "idle"}

\* the step issues the request of caller c
Issues(c) == calls[c].pc = "idle" /\ calls'[c].pc = "waiting"

\* a text that is set and not empty
NonEmptyText(x) == x # None /\ x.v # <<>>

\* C22: every request of a bridge client operation carries a fixed timeout,
\* 60 seconds for send_file and 30 seconds for every other operation,
\* whatever the arguments.
C22_FixedTimeouts ==
    \A c \in Issued :
        \A i \in 1..Len(calls[c].sent) :
            calls[c].sent[i].timeout = IF calls[c].op = "send_file" THEN 60 ELSE 30

C22_Witness ==
    /\ calls["a"].pc = "waiting" /\ calls["a"].op = "send_file"
    /\ calls["a"].sent[1].timeout = 60
    /\ calls["b"].pc = "waiting" /\ calls["b"].op = "send_message"
    /\ calls["b"].sent[1].timeout = 30

\* the request carries the X-API-Key header with the key of environment e
\* exactly when that key is set and not empty
KeyHeaderAsConfigured(req, e) ==
    IF NonEmptyText(e.API_KEY)
    THEN "X-API-Key" \in DOMAIN req.headers /\ req.headers["X-API-Key"] = e.API_KEY
    ELSE "X-API-Key" \notin DOMAIN req.headers

\* C23: every request of a bridge client operation carries the X-API-Key
\* header with the configured key if and only if an API key is configured
\* (set and not empty) when the request is issued; otherwise it has no
\* such header.
C23_ApiKeyHeader ==
    [][\A c \in Callers :
            Issues(c) => KeyHeaderAsConfigured(calls'[c].sent[1], env)]_vars

C23_Witness ==
    /\ calls["a"].pc = "waiting"
    /\ "X-API-Key" \in DOMAIN calls["a"].sent[1].headers
    /\ calls["a"].sent[1].headers["X-API-Key"] = PyStr(<<"k">>)
    /\ calls["b"].pc = "waiting"
    /\ "X-API-Key" \notin DOMAIN calls["b"].sent[1].headers
    /\ env.API_KEY = PyStr(<<>>)

\* the base URL the environment e configures
ConfiguredBaseUrl(e) ==
    IF e.WHATSAPP_API_URL = None THEN DefaultBaseUrl ELSE e.WHATSAPP_API_URL

\* C24: the base URL and the API key are both read from the environment
\* when an operation is called: a request uses the base URL and the API key
\* the environment holds at that moment, also after the environment changed.
C24_ConfigurationReadAtCallTime ==
    [][\A c \in Callers :
            Issues(c) =>
                /\ KeyHeaderAsConfigured(calls'[c].sent[1], env)
                /\ SubSeq(calls'[c].sent[1].url, 1, 1) = ConfiguredBaseUrl(env).v]_vars

\* the endpoint of the bridge interface table, as the pieces of its path
TableEndpoint(op, args) ==
    CASE op \in {"send_message", "send_file"} -> <<"/send">>
      [] op = "send_reaction" -> <<"/reaction">>
      [] op = "edit_message" -> <<"/edit">>
      [] op = "delete_message" -> <<"/delete">>
      [] op = "mark_read" -> <<"/read">>
      [] op = "get_group_info" -> <<"/group/">> \o args.group_jid.v
      [] op = "create_group" -> <<"/group/create">>
      [] op = "create_poll" -> <<"/poll/create">>

\* the request fields of the bridge interface table that are always sent
TableFields(op) ==
    CASE op = "send_message" -> {"recipient", "message"}
      [] op = "send_file" -> {"recipient", "message", "media_path"}
      [] op = "send_reaction" -> {"chat_jid", "message_id", "emoji"}
      [] op = "edit_message" -> {"chat_jid", "message_id", "new_content"}
      [] op = "delete_message" -> {"chat_jid", "message_id"}
      [] op = "mark_read" -> {"chat_jid", "message_ids"}
      [] op = "get_group_info" -> {}
      [] op = "create_group" -> {"name", "participants"}
      [] op = "create_poll" -> {"chat_jid", "question", "options", "multi_select"}

\* C25: each bridge client operation uses the endpoint, method and request
\* fields of the bridge interface table: get_group_info is a GET to
\* /group/{jid} without a body, every other operation is a POST;
\* delete_message and mark_read send sender_jid exactly when a non-empty
\* sender_jid was given; send_file posts media_path to /send.
C25_InterfaceTable ==
    \A c \in Issued :
        LET op == calls[c].op
            args == calls[c].args
            req == calls[c].sent[1]
        IN  /\ req.method = IF op = "get_group_info" THEN "GET" ELSE "POST"
            /\ Tail(req.url) = TableEndpoint(op, args)
            /\ DOMAIN req.json \ {"sender_jid"} = TableFields(op)
            /\ \A k \in TableFields(op) \cap DOMAIN args : req.json[k] = args[k]
            /\ "sender_jid" \in DOMAIN req.json <=>
                    /\ op \in {"delete_message", "mark_read"}
                    /\ NonEmptyText(args.sender_jid)
            /\ "sender_jid" \in DOMAIN req.json =>
                    req.json["sender_jid"] = args.sender_jid

C25_Witness ==
    /\ calls["a"].pc = "waiting" /\ calls["a"].op = "delete_message"
    /\ calls["a"].args.sender_jid = PyStr(<<>>)
    /\ "sender_jid" \notin DOMAIN calls["a"].sent[1].json
    /\ calls["b"].pc = "waiting" /\ calls["b"].op = "mark_read"
    /\ NonEmptyText(calls["b"].args.sender_jid)
    /\ "sender_jid" \in DOMAIN calls["b"].sent[1].json

\* two invocations that were given the same
SameGiven(a, b) ==
    /\ calls[a].op = calls[b].op /\ calls[a].args = calls[b].args
    /\ calls[a].sent[1].headers = calls[b].sent[1].headers

\* C26: concurrent invocations of bridge client operations do not
\* interfere: a step of one invocation leaves every other invocation as it
\* is, and the request an invocation sends and the result it returns are
\* the same for the same arguments, environment and response of the bridge.
C26_CallsDoNotInterfere ==
    /\ [](\A a \in Issued : \A b \in Issued :
            /\ SameGiven(a, b) => calls[a].sent = calls[b].sent
            /\ ( /\ SameGiven(a, b)
                 /\ calls[a].pc = "done" /\ calls[b].pc = "done"
                 /\ calls[a].outcome = calls[b].outcome )
                    => calls[a].result = calls[b].result)
    /\ [][\A a \in Callers : \A b \in Callers \ {a} :
            calls'[a] # calls[a] => calls'[b] = calls[b]]_vars

C26_Witness ==
    /\ calls["a"].pc = "done" /\ calls["a"].op = "send_message"
    /\ calls["a"].result.kind = "raise"
    /\ calls["b"].pc = "done" /\ calls["b"].op = "send_message"
    /\ calls["b"].result.kind = "return"

(***************************************************************************)
(* Claims about the media keys of Message.to_dict().                       *)
(***************************************************************************)
MediaKeys == {"filename", "file_length"}

C28_WitnessNoMediaType ==
    /\ msgOut # NoDict
    /\ msg.media_type = PyStr(<<>>) /\ NonEmptyText(msg.filename)
    /\ "filename" \notin DOMAIN msgOut.v

(***************************************************************************)
(* Claims about send_message of the tool surfaces.                         *)
(***************************************************************************)
\* the success flag and the message of what a tool returned: of the mapping,
\* of its text, or of the pair
ReturnedSuccess(ret) ==
    CASE ret.t = "dict" -> ret.v.success
      [] ret.t = "str" -> ret.repr.v.success
      [] ret.t = "tuple" -> ret.v[1]
ReturnedMessage(ret) ==
    CASE ret.t = "dict" -> ret.v.message
      [] ret.t = "str" -> ret.repr.v.message
      [] ret.t = "tuple" -> ret.v[2]

\* C27: in every variant, send_message with an empty recipient returns a
\* failure with the message "Recipient must be provided" and makes no call
\* of the underlying send operation; with a recipient it makes exactly one
\* such call and relays its success flag and message unchanged.
C27_SendMessageChecksRecipient ==
    (tool # NoTool /\ tool.name = "send_message") =>
        IF NonEmptyText(tool.args.recipient)
        THEN /\ Len(tool.made) = 1
             /\ tool.made[1].name = "send_message"
             /\ ReturnedSuccess(tool.ret) = tool.made[1].pair[1]
             /\ ReturnedMessage(tool.ret) = tool.made[1].pair[2]
        ELSE /\ tool.made = <<>>
             /\ ReturnedSuccess(tool.ret) = PyBool(FALSE)
             /\ ReturnedMessage(tool.ret) = PyStr(<<"Recipient must be provided">>)

(***************************************************************************)
(* Claims about get_contact_details and the calls a tool makes.            *)
(***************************************************************************)
\* get_contact_details has returned
DetailsReturned == read # NoRead /\ read.name = "get_contact_details"

\* C21: every tool invocation makes at most one call of the local store
\* reader or of the bridge client before it returns: no tool makes a second
\* lookup or a second outbound call within one invocation.
C21_AtMostOneCall ==
    /\ DetailsReturned => Len(read.made) <= 1
    /\ (tool # NoTool /\ "made" \in DOMAIN tool) => Len(tool.made) <= 1

\* the contacts of the table with this JID, and with this phone number
WithJid(identifier) ==
    {i \in 1..Len(contacts) : contacts[i].jid = identifier}
WithPhone(identifier) ==
    {i \in 1..Len(contacts) : contacts[i].phone_number = identifier}

\* the text returned describes the contact in row i
Describes(result, i) ==
    /\ result.kind = "return"
    /\ "info" \in DOMAIN result.value
    /\ result.value.info.jid = contacts[i].jid
    /\ result.value.info.phone_number = contacts[i].phone_number
    /\ result.value.info.name = contacts[i].name

\* C29: get_contact_details(identifier) of main.py looks the identifier up as
\* a JID first and as a phone number only when the JID lookup found nothing;
\* it returns the formatted contact of the first lookup that found one, and
\* the text "No contact found for: <identifier>" exactly when both lookups
\* found nothing.
C29_JidThenPhone ==
    (DetailsReturned /\ read.variant = "main") =>
        LET id == read.args
            nothing == PyFormat(<<PyStr(<<"No contact found for: ">>), id>>)
        IN  /\ read.made[1].name = "get_contact_by_jid" /\ read.made[1].arg = id
            /\ Len(read.made) = IF WithJid(id) = {} THEN 2 ELSE 1
            /\ Len(read.made) = 2 =>
                    /\ read.made[2].name = "get_contact_by_phone"
                    /\ read.made[2].arg = id
            /\ WithJid(id) # {} => \E i \in WithJid(id) : Describes(read.result, i)
            /\ (WithJid(id) = {} /\ WithPhone(id) # {}) =>
                    \E i \in WithPhone(id) : Describes(read.result, i)
            /\ read.result = Returned(nothing) <=>
                    (WithJid(id) = {} /\ WithPhone(id) = {})

\* C29, witness: the identifier is the phone number of a contact and the JID
\* of none, and both lookups were made
C29_Witness ==
    /\ DetailsReturned /\ read.variant = "main"
    /\ WithJid(read.args) = {} /\ WithPhone(read.args) # {}
    /\ Len(read.made) = 2
    /\ read.made[2].found # None

(***************************************************************************)
(* Claims about the functions of the Gradio UI.                            *)
(***************************************************************************)
OutcomeWrappers ==
    {"gradio_send_message", "gradio_send_file", "gradio_send_audio",
     "gradio_set_contact_nickname", "gradio_remove_contact_nickname",
     "gradio_get_contact_details"}

\* the function has called the tool it wraps, or has tried to
WrapperCalledTool ==
    /\ tool # NoTool /\ tool.variant = "gradio_ui" /\ tool.name \in OutcomeWrappers
    /\ \/ tool.wrapped # NotCalled
       \/ /\ tool.name = "gradio_get_contact_details"
          /\ (NonEmptyText(tool.args.jid) \/ NonEmptyText(tool.args.phone_number))

\* C30: every function of the Gradio UI that reports the outcome of a tool
\* ends without an error for every result the tool can return, and yields
\* the status text made of the success and message of that result (for
\* get_contact_details: a text).
C30_WrappersReportOutcome ==
    WrapperCalledTool =>
        /\ tool.result.kind = "return"
        /\ tool.name # "gradio_get_contact_details" =>
                tool.result.value =
                    PyFormat(<<PyStr(<<"Status: ">>), ReturnedSuccess(tool.wrapped),
                               PyStr(<<", Message: ">>), ReturnedMessage(tool.wrapped)>>)
====
